---- MODULE Spec2Model ----
(***************************************************************************)
(* Protocol engine of the TimeFlip2 client (crate timeflippers):           *)
(*   - TimeFlip::command      write -> verify echo -> read result          *)
(*   - TimeFlip::sync         the device-driven synchronization loop       *)
(*   - TimeFlip::read_history_since   the streaming history read           *)
(* together with the codecs of timeflip/gatt.rs they use.  Bytes are       *)
(* numbers 0..255, byte strings are sequences of bytes.                    *)
(***************************************************************************)
EXTENDS Integers, Sequences, FiniteSets, TLC

(***************************************************************************)
(* Bounds of the model.                                                    *)
(***************************************************************************)
\* the status-read counter of sync saturates here ...
MaxReads == 3
\* ... and here when the device is well-behaved or alternating
MaxReadsLong == 9
\* Utc::now() is drawn from 1..MaxNow
MaxNow == 2
\* longest notification stream delivered to read_history_since
MaxEvents == 4
\* largest usize index handed to Facet::new
MaxIndex == 300
\* longest of the short side lists handed to sides_from_vec
MaxSides == 3

(***************************************************************************)
(* Result values: Ok(v) / Err(e); errors are records with a kind.          *)
(***************************************************************************)
Ok(v) == [tag |-> "Ok", val |-> v]
Err(e) == [tag |-> "Err", err |-> e]
NoRet == [tag |-> "None"]
Unit == "()"
Min(a, b) == IF a < b THEN a ELSE b

(***************************************************************************)
(* Big-endian integer codecs (bytes::BufMut::put_u16/u32/u64 and           *)
(* bytes::Buf::get_u32), for values below 2^31.                            *)
(***************************************************************************)
put_u16_little_endian(v) == << v % 256, (v \div 256) % 256 >>
put_u16(v) == << (v \div 256) % 256, v % 256 >>
put_u32(v) == << (v \div 16777216) % 256, (v \div 65536) % 256, (v \div 256) % 256, v % 256 >>
put_u64(v) == << 0, 0, 0, 0 >> \o put_u32(v)
get_u16(b, at) == b[at] * 256 + b[at + 1]
get_u32(b, at) == ((b[at] * 256 + b[at + 1]) * 256 + b[at + 2]) * 256 + b[at + 3]

(***************************************************************************)
(* types.rs                                                                *)
(***************************************************************************)
\* Facet::new: the range test is a disjunction, the conversion to u8 panics
\* above 255.  A Facet is represented by its index.
Facet_new(index) ==
    IF index >= 1 \/ index <= 12
    THEN IF index <= 255 THEN Ok(index) ELSE [tag |-> "Panic"]
    ELSE Err([kind |-> "InvalidIndex", arg |-> index])

\* Facet::index_zero: usize::from(self.index()) - 1.  For index 0 the
\* subtraction overflows: a build with overflow checks panics, one without
\* wraps to usize::MAX
Index_zero(facet) ==
    IF facet >= 1 THEN { Ok(facet - 1) }
    ELSE { [tag |-> "Panic"], [tag |-> "Wrapped"] }

\* FacetTask
Simple == [kind |-> "Simple"]
Pomodoro(timer) == [kind |-> "Pomodoro", timer |-> timer]

(***************************************************************************)
(* config.rs                                                               *)
(***************************************************************************)
Side(facet, color, task) == [facet |-> facet, name |-> "None", color |-> color, task |-> task]

\* Side::default(index): black, Simple, no name
Side_default(index) == Side(Facet_new(index).val, << 0, 0, 0 >>, Simple)

\* Config::default()
Config_default ==
    [ brightness |-> 100,
      blink_interval |-> 30,
      auto_pause |-> 8 * 60,
      sides |-> [i \in 1..12 |-> Side_default(i)] ]

\* a configuration as a timeflip.toml gives it: every side named, coloured
\* and with a task of its own
Config_custom ==
    [ brightness |-> 50,
      blink_interval |-> 5,
      auto_pause |-> 15,
      sides |-> [i \in 1..12 |->
                   Side(i, << i, 256 + i, 2 * i >>,
                        IF i % 2 = 0 THEN Pomodoro(60 * i) ELSE Simple)] ]

Configs == { Config_default, Config_custom }

(***************************************************************************)
(* gatt.rs: Command                                                        *)
(***************************************************************************)
LockMode(on) == [name |-> "LockMode", on |-> on]
AutoPauseTime(time) == [name |-> "AutoPauseTime", time |-> time]
PauseMode(on) == [name |-> "PauseMode", on |-> on]
GetTime == [name |-> "GetTime"]
Time(time) == [name |-> "Time", time |-> time]
Brightness(value) == [name |-> "Brightness", value |-> value]
BlinkInterval(value) == [name |-> "BlinkInterval", value |-> value]
ReadStatus == [name |-> "ReadStatus"]
SetColor(facet, color) == [name |-> "SetColor", facet |-> facet, color |-> color]
SetTaskParameter(facet, task) == [name |-> "SetTaskParameter", facet |-> facet, task |-> task]
GetTaskParameter(facet) == [name |-> "GetTaskParameter", facet |-> facet]

\* Command::id
Command_id(command) ==
    CASE command.name = "LockMode" -> 4
      [] command.name = "AutoPauseTime" -> 5
      [] command.name = "PauseMode" -> 6
      [] command.name = "GetTime" -> 7
      [] command.name = "Time" -> 8
      [] command.name = "Brightness" -> 9
      [] command.name = "BlinkInterval" -> 10
      [] command.name = "ReadStatus" -> 16
      [] command.name = "SetColor" -> 17
      [] command.name = "SetTaskParameter" -> 19
      [] command.name = "GetTaskParameter" -> 20

\* Command::to_vec
Command_to_vec(command) ==
    << Command_id(command) >> \o
    CASE command.name \in {"LockMode", "PauseMode"} ->
            IF command.on THEN << 1 >> ELSE << 2 >>
      [] command.name = "AutoPauseTime" -> put_u16(command.time)
      [] command.name = "Time" -> put_u64(command.time)
      [] command.name \in {"Brightness", "BlinkInterval"} -> << command.value >>
      [] command.name \in {"GetTime", "ReadStatus"} -> << >>
      [] command.name = "SetColor" ->
            << command.facet >> \o put_u16(command.color[1])
                \o put_u16(command.color[2]) \o put_u16(command.color[3])
      [] command.name = "SetTaskParameter" ->
            << command.facet >> \o
            ( IF command.task.kind = "Simple"
              THEN << 0 >> \o put_u32(0)
              ELSE << 1 >> \o put_u32(command.task.timer) )
      [] command.name = "GetTaskParameter" -> << command.facet >>

(***************************************************************************)
(* gatt.rs: CommandResult decoders                                         *)
(***************************************************************************)
\* impl CommandResult for ()
Unit_from_data(data) == Ok(Unit)

\* impl CommandResult for SystemStatus
SystemStatus_from_data(data) ==
    IF Len(data) < 4 THEN Err([kind |-> "SystemStatus.TooShort", arg |-> Len(data)])
    ELSE IF data[1] \notin {1, 2} THEN Err([kind |-> "InvalidLockMode", arg |-> data[1]])
    ELSE IF data[2] \notin {1, 2} THEN Err([kind |-> "InvalidPauseMode", arg |-> data[2]])
    ELSE Ok([ lock_mode |-> (data[1] = 1),
              pause_mode |-> (data[2] = 1),
              auto_pause_time |-> get_u16(data, 3) ])

\* variant: the facet is taken from the task byte
FacetSettings_from_data_shifted(data) ==
    IF Len(data) < 11 THEN Err([kind |-> "FacetSettings.TooShort", arg |-> Len(data)])
    ELSE IF data[1] # 20 THEN Err([kind |-> "InvalidCommand", arg |-> data[1]])
    ELSE IF Facet_new(data[3]).tag # "Ok" THEN Err([kind |-> "InvalidFacet", arg |-> data[3]])
    ELSE IF data[3] \notin {0, 1} THEN Err([kind |-> "InvalidTask", arg |-> data[3]])
    ELSE Ok([ facet |-> Facet_new(data[3]).val,
              task |-> IF data[3] = 0 THEN Simple ELSE Pomodoro(get_u32(data, 4)),
              seconds_since_start |-> get_u32(data, 8) ])

\* impl CommandResult for FacetSettings
FacetSettings_from_data(data) ==
    IF Len(data) < 11 THEN Err([kind |-> "FacetSettings.TooShort", arg |-> Len(data)])
    ELSE IF data[1] # 20 THEN Err([kind |-> "InvalidCommand", arg |-> data[1]])
    ELSE IF Facet_new(data[2]).tag # "Ok" THEN Err([kind |-> "InvalidFacet", arg |-> data[2]])
    ELSE IF data[3] \notin {0, 1} THEN Err([kind |-> "InvalidTask", arg |-> data[3]])
    ELSE Ok([ facet |-> Facet_new(data[2]).val,
              task |-> IF data[3] = 0 THEN Simple ELSE Pomodoro(get_u32(data, 4)),
              seconds_since_start |-> get_u32(data, 8) ])

\* the decoder T the public method of a command passes to TimeFlip::command
Command_from_data(command, data) ==
    CASE command.name = "GetTaskParameter" -> FacetSettings_from_data(data)
      [] command.name = "ReadStatus" -> SystemStatus_from_data(data)
      [] OTHER -> Unit_from_data(data)

(***************************************************************************)
(* gatt.rs: SyncState                                                      *)
(***************************************************************************)
SyncTypes ==
    { "Synchronized", "FactoryReset", "Time", "FacetColor", "LedBrightness",
      "BlinkInterval", "TaskParameters", "AutoPause" }

\* variant: the accelerometer and the flash flag change places
SyncState_from_data_flags_swapped(data) ==
    IF Len(data) < 4 THEN Err([kind |-> "SyncState.TooShort", arg |-> Len(data)])
    ELSE LET d == << data[1], data[2] >>
             h == << data[3], data[4] >>
             sync == CASE d = << 0, 0 >> -> "Synchronized"
                       [] d = << 1, 0 >> -> "FactoryReset"
                       [] d = << 2, 1 >> -> "Time"
                       [] d = << 2, 2 >> -> "FacetColor"
                       [] d = << 2, 3 >> -> "LedBrightness"
                       [] d = << 2, 4 >> -> "BlinkInterval"
                       [] d = << 2, 5 >> -> "TaskParameters"
                       [] d = << 2, 6 >> -> "AutoPause"
                       [] OTHER -> "Invalid"
             hw == CASE h = << 0, 0 >> -> << FALSE, FALSE >>
                     [] h = << 2, 1 >> -> << TRUE, FALSE >>
                     [] h = << 2, 2 >> -> << FALSE, TRUE >>
                     [] h = << 2, 3 >> -> << TRUE, TRUE >>
                     [] OTHER -> << >>
         IN  IF sync = "Invalid" THEN Err([kind |-> "InvalidSyncType", arg |-> d])
             ELSE IF hw = << >> THEN Err([kind |-> "InvalidHardwareError", arg |-> h])
             ELSE Ok([sync |-> sync, accelerometer_error |-> hw[2], flash_error |-> hw[1]])

\* SyncState::from_data
SyncState_from_data(data) ==
    IF Len(data) < 4 THEN Err([kind |-> "SyncState.TooShort", arg |-> Len(data)])
    ELSE LET d == << data[1], data[2] >>
             h == << data[3], data[4] >>
             sync == CASE d = << 0, 0 >> -> "Synchronized"
                       [] d = << 1, 0 >> -> "FactoryReset"
                       [] d = << 2, 1 >> -> "Time"
                       [] d = << 2, 2 >> -> "FacetColor"
                       [] d = << 2, 3 >> -> "LedBrightness"
                       [] d = << 2, 4 >> -> "BlinkInterval"
                       [] d = << 2, 5 >> -> "TaskParameters"
                       [] d = << 2, 6 >> -> "AutoPause"
                       [] OTHER -> "Invalid"
             hw == CASE h = << 0, 0 >> -> << FALSE, FALSE >>
                     [] h = << 2, 1 >> -> << TRUE, FALSE >>
                     [] h = << 2, 2 >> -> << FALSE, TRUE >>
                     [] h = << 2, 3 >> -> << TRUE, TRUE >>
                     [] OTHER -> << >>
         IN  IF sync = "Invalid" THEN Err([kind |-> "InvalidSyncType", arg |-> d])
             ELSE IF hw = << >> THEN Err([kind |-> "InvalidHardwareError", arg |-> h])
             ELSE Ok([sync |-> sync, accelerometer_error |-> hw[1], flash_error |-> hw[2]])

(***************************************************************************)
(* gatt.rs: Entry                                                          *)
(***************************************************************************)
\* u64 -> i64 (try_into) and NaiveDateTime::from_timestamp_opt(secs, 0) on the
\* eight big-endian bytes of the start time: the value must be below 2^63 and
\* denote a calendar instant chrono represents (years up to 262143, which
\* ends below 2^43 seconds)
TimestampRepresentable(t) == t[1] = 0 /\ t[2] = 0 /\ t[3] < 8

\* the seconds of a representable start time, as four 16-bit limbs, most
\* significant first
Timestamp(t) == << get_u16(t, 1), get_u16(t, 3), get_u16(t, 5), get_u16(t, 7) >>

\* impl CommandResult for NaiveDateTime
NaiveDateTime_from_data(data) ==
    IF Len(data) < 9 THEN Err([kind |-> "GetTime.TooShort", arg |-> Len(data)])
    ELSE IF data[1] # 7 THEN Err([kind |-> "InvalidCommand", arg |-> data[1]])
    ELSE LET timestamp == SubSeq(data, 2, 9)
         IN  IF timestamp[1] >= 128
             THEN Err([kind |-> "TimestampTooBig"])
             ELSE IF ~TimestampRepresentable(timestamp)
             THEN Err([kind |-> "Timestamp", arg |-> timestamp])
             ELSE Ok(Timestamp(timestamp))

\* variant: the pause bit is taken from facet bytes above 128 only
Entry_from_data_pause_above_128(data) ==
    IF Len(data) < 17 THEN Err([kind |-> "TooShort"])
    ELSE LET id == get_u32(data, 1)
             facet == data[5]
             start_time == SubSeq(data, 6, 13)
             duration == get_u32(data, 14)
             fp == IF facet > 128 THEN << facet - 128, TRUE >> ELSE << facet, FALSE >>
         IN  IF id = 0 /\ facet = 0 /\ start_time = << 0, 0, 0, 0, 0, 0, 0, 0 >> /\ duration = 0
             THEN Err([kind |-> "EndOfHistory"])
             ELSE IF Facet_new(fp[1]).tag # "Ok"
             THEN Err([kind |-> "InvalidFacet", arg |-> fp[1]])
             ELSE IF ~TimestampRepresentable(start_time)
             THEN Err([kind |-> "InvalidTimestamp", arg |-> start_time])
             ELSE Ok([ id |-> id,
                       facet |-> Facet_new(fp[1]).val,
                       pause |-> fp[2],
                       time |-> Timestamp(start_time),
                       duration |-> duration ])

\* Entry::from_data
Entry_from_data(data) ==
    IF Len(data) < 17 THEN Err([kind |-> "TooShort"])
    ELSE LET id == get_u32(data, 1)
             facet == data[5]
             start_time == SubSeq(data, 6, 13)
             duration == get_u32(data, 14)
             fp == IF facet > 127 THEN << facet - 128, TRUE >> ELSE << facet, FALSE >>
         IN  IF id = 0 /\ facet = 0 /\ start_time = << 0, 0, 0, 0, 0, 0, 0, 0 >> /\ duration = 0
             THEN Err([kind |-> "EndOfHistory"])
             ELSE IF Facet_new(fp[1]).tag # "Ok"
             THEN Err([kind |-> "InvalidFacet", arg |-> fp[1]])
             ELSE IF ~TimestampRepresentable(start_time)
             THEN Err([kind |-> "InvalidTimestamp", arg |-> start_time])
             ELSE Ok([ id |-> id,
                       facet |-> Facet_new(fp[1]).val,
                       pause |-> fp[2],
                       time |-> Timestamp(start_time),
                       duration |-> duration ])

(***************************************************************************)
(* State.                                                                  *)
(***************************************************************************)
VARIABLES
    \* TimeFlip::sync(&self, config): its argument, its position, its locals
    config,         \* the Config passed to sync
    sync_pc,        \* "idle" | "read" (loop head) | "call" (inside self.command) | "returned"
    last_sync,      \* let mut last_sync: Option<SyncType>
    sync_state,     \* result of self.sync_state() of this iteration
    side_i,         \* enumerate() index of the per-side loops
    sync_ret,       \* what sync returned
    \* observation of sync's transport traffic
    nreads,         \* status reads issued so far (saturates at MaxReads)
    written,        \* commands written since the last status read
    \* the device's synchronization needs
    declared,       \* directives a well-behaved device has declared so far
    plan,           \* the two directives an alternating device declares in turn
    \* TimeFlip::command(&self, command), one activation per caller
    pc,             \* "idle" | "write" | "echo" | "result" | "done"
    command,        \* the command argument
    cmd_execution,  \* bytes re-read from the command characteristic
    calls,          \* the steps the activation has made, in order
    ret,            \* what the activation returned
    executed,       \* whether the device executed the caller's command
    \* the device's command and command-result characteristics
    dev_command,    \* value a read of Characteristic::Command returns
    dev_result,     \* value a read of Characteristic::CommandResult returns
    \* TimeFlip::read_history_since(&self, id)
    hist_pc,        \* "idle" | "start_notify" | "open_stream" | "write_request"
                    \* | "next" | "stop_notify" | "returned"
    since_id,       \* the id argument
    entries,        \* let mut entries = vec![]
    hist_ret,       \* what read_history_since returned
    \* the transport, as read_history_since sees it
    stream,         \* the events the characteristic event stream delivers
    stream_ends,    \* whether the stream ends after them (else it stays open)
    consumed,       \* events taken from the stream by stream.next()
    notifying,      \* characteristics with notifications started
    stop_calls,     \* stop_notify calls made
    dev_history,    \* bytes last written to Characteristic::History
    hist_calls,     \* the session calls read_history_since made, with their outcome
    \* one application of a constructor or decoder
    fn_name,        \* the function applied
    fn_in,          \* its argument
    fn_out,         \* its result, once applied
    \* TimeFlip::event_stream(&self) and the stream it returns
    es_pc,          \* "idle" | "open" | "streaming" | "ended" | "failed"
    es_ret,         \* what event_stream returned
    es_in,          \* the events the device event stream delivers
    es_ends,        \* whether the device event stream ends after them
    es_taken,       \* events taken from the device event stream
    es_out,         \* the Events the returned stream has yielded
    last_subscribe, \* the last subscribe_* call made and whether it succeeded
    \* TimeFlip::write_config(&self, config)
    wc_pc,          \* "idle" | "start" | "call" (inside self.command) | "returned"
    wc_config,      \* the Config passed to write_config
    wc_step,        \* index of the command being issued
    wc_log,         \* the commands issued so far: command, transport calls, result
    wc_ret,         \* what write_config returned
    \* TimeFlip::connect(session, password)
    cn_pc,          \* "idle" | "get_devices" | "connect" | "get_info" | "write_password" | "returned"
    cn_devices,     \* what session.get_devices() returns
    cn_password,    \* the password argument: "None" or six bytes
    cn_device,      \* index of the selected device, 0 before the selection
    cn_handles,     \* characteristics resolved so far, in order
    cn_calls,       \* transport calls made so far, in order
    cn_ret,         \* what connect returned
    \* TimeFlip::read_history_entry(id)
    rh_pc,          \* "idle" | "start" | "write" | "read" | "returned"
    rh_fn,          \* the function called: read_history_entry or read_last_history_entry
    rh_id,          \* the id argument, a u32 as two 16-bit limbs, most significant first
    rh_calls,       \* transport calls made so far, in order
    rh_ret,         \* what read_history_entry returned
    \* timekeeper: run's locals and its App
    tk_state,       \* "idle" | "list" (a StatefulList by itself) | "Selecting" |
                    \* "Editing" | "Paused" | "exited" | "panicked"
    tk_items,       \* app.items.items: entry ids in the order of the list
    tk_selected,    \* app.items.state.selected(): NoSelection or Some(i), i from 0
    tk_entries,     \* app.entries: by id, the entry's presence, visibility, description
    tk_show_invisible, \* app.show_invisible
    tk_textarea,    \* the text of the text area
    tk_last         \* the operation or event handled last

syncVars == << config, sync_pc, last_sync, sync_state, side_i, sync_ret,
               nreads, written, declared, plan >>
cmdVars == << pc, command, cmd_execution, calls, ret, executed >>
devVars == << dev_command, dev_result >>
histVars == << hist_pc, since_id, entries, hist_ret, stream, stream_ends, consumed,
               notifying, stop_calls, dev_history, hist_calls >>
fnVars == << fn_name, fn_in, fn_out >>
eventVars == << es_pc, es_ret, es_in, es_ends, es_taken, es_out, last_subscribe >>
wcVars == << wc_pc, wc_config, wc_step, wc_log, wc_ret >>
connVars == << cn_pc, cn_devices, cn_password, cn_device, cn_handles, cn_calls, cn_ret >>
rhVars == << rh_pc, rh_fn, rh_id, rh_calls, rh_ret >>
tkVars == << tk_state, tk_items, tk_selected, tk_entries, tk_show_invisible, tk_textarea,
             tk_last >>
vars == << syncVars, cmdVars, devVars, histVars, fnVars, eventVars, wcVars, connVars, rhVars,
           tkVars >>

\* the activations of TimeFlip::command: the one sync makes, and three
\* callers sharing &self
Clients == { "c1", "c2", "c3" }
Callers == { "sync" } \cup Clients

NoCommand == [name |-> "None"]

(***************************************************************************)
(* The device, seen through the transport.                                 *)
(***************************************************************************)
\* Characteristic::Command: "When reading this characteristic, the last
\* executed command's success state is returned."  The echo of a written
\* command w is [id, 0x02] when it was executed; a device that rejects or
\* garbles it answers anything else.
EchoExecuted(w) == << w[1], 2 >>
EchoReplies(w) ==
    { EchoExecuted(w), << w[1], 1 >>, << w[1] >>, << >>,
      << (w[1] + 1) % 256, 2 >>, << w[1], 2, 0 >> }

\* Characteristic::CommandResult: the output of the executed command, in the
\* layout its decoder reads
DeviceResult(w) ==
    CASE w[1] = 20 -> << 20, w[2], 0 >> \o put_u32(0) \o put_u32(w[2])
      [] w[1] = 16 -> << 2, 1 >> \o put_u16(15)
      [] OTHER -> << w[1] >>

\* Characteristic::SystemState: status words a device may hold
StatusWord(sync) ==
    CASE sync = "Synchronized" -> << 0, 0 >>
      [] sync = "FactoryReset" -> << 1, 0 >>
      [] sync = "Time" -> << 2, 1 >>
      [] sync = "FacetColor" -> << 2, 2 >>
      [] sync = "LedBrightness" -> << 2, 3 >>
      [] sync = "BlinkInterval" -> << 2, 4 >>
      [] sync = "TaskParameters" -> << 2, 5 >>
      [] sync = "AutoPause" -> << 2, 6 >>

StatusData ==
    { a \o b : a \in { StatusWord(t) : t \in SyncTypes }
                        \cup { << 0, 1 >>, << 1, 1 >>, << 2, 0 >>, << 2, 7 >>, << 9, 9 >> },
               b \in { << 0, 0 >>, << 2, 1 >>, << 2, 2 >>, << 2, 3 >>, << 2, 4 >>, << 0, 1 >> } }
    \cup { << >>, << 0, 0, 0 >>, << 2, 3, 0, 0, 7 >> }

(***************************************************************************)
(* TimeFlip::command                                                       *)
(***************************************************************************)
\* variant: the status byte is not compared
ExecutionFailed_no_status(echo, cmd) ==
    Len(echo) < 2 \/ echo[1] # Command_id(cmd)

\* the execution-success check on the re-read command characteristic
ExecutionFailed(echo, cmd) ==
    Len(echo) < 2 \/ echo[1] # Command_id(cmd) \/ echo[2] # 2

\* entry into self.command::<T>(command)
Invoke(c, cmd) ==
    /\ command' = [command EXCEPT ![c] = cmd]
    /\ pc' = [pc EXCEPT ![c] = "write"]
    /\ cmd_execution' = [cmd_execution EXCEPT ![c] = << >>]
    /\ calls' = [calls EXCEPT ![c] = << >>]
    /\ ret' = [ret EXCEPT ![c] = NoRet]
    /\ executed' = [executed EXCEPT ![c] = FALSE]

\* the activation's frame is dropped
Leave(c) ==
    /\ command' = [command EXCEPT ![c] = NoCommand]
    /\ pc' = [pc EXCEPT ![c] = "idle"]
    /\ cmd_execution' = [cmd_execution EXCEPT ![c] = << >>]
    /\ calls' = [calls EXCEPT ![c] = << >>]
    /\ ret' = [ret EXCEPT ![c] = NoRet]
    /\ executed' = [executed EXCEPT ![c] = FALSE]

Return(c, r) ==
    /\ ret' = [ret EXCEPT ![c] = r]
    /\ pc' = [pc EXCEPT ![c] = "done"]

BluetoothError == [kind |-> "Bluetooth"]
CommandExecutionFailed == [kind |-> "CommandExecutionFailed"]

\* session.write_characteristic_value(command.id, command.to_vec()).await?
CommandWrite(c, ok, reply) ==
    /\ pc[c] = "write"
    /\ calls' = [calls EXCEPT ![c] = Append(@, << "write", "command" >>)]
    /\ written' = IF c = "sync" THEN Append(written, command[c]) ELSE written
    /\ IF ok
       THEN /\ reply \in EchoReplies(Command_to_vec(command[c]))
            /\ dev_command' = reply
            /\ dev_result' = IF reply = EchoExecuted(Command_to_vec(command[c]))
                             THEN DeviceResult(Command_to_vec(command[c]))
                             ELSE dev_result
            /\ executed' = [executed EXCEPT
                              ![c] = (reply = EchoExecuted(Command_to_vec(command[c])))]
            /\ pc' = [pc EXCEPT ![c] = "echo"]
            /\ UNCHANGED ret
       ELSE /\ reply = << >>
            /\ Return(c, Err(BluetoothError))
            /\ UNCHANGED << devVars, executed >>
    /\ UNCHANGED << command, cmd_execution >>
    /\ UNCHANGED << config, sync_pc, last_sync, sync_state, side_i, sync_ret,
                    nreads, declared, plan, histVars, fnVars, eventVars, wcVars, connVars, rhVars, tkVars >>

\* let cmd_execution = session.read_characteristic_value(command.id).await?
\* followed by the execution-success check
CommandReadEcho(c, ok) ==
    /\ pc[c] = "echo"
    /\ calls' = [calls EXCEPT ![c] = Append(@, << "read", "command" >>)]
    /\ IF ok
       THEN /\ cmd_execution' = [cmd_execution EXCEPT ![c] = dev_command]
            /\ IF ExecutionFailed(dev_command, command[c])
               THEN Return(c, Err(CommandExecutionFailed))
               ELSE /\ pc' = [pc EXCEPT ![c] = "result"]
                    /\ UNCHANGED ret
       ELSE /\ Return(c, Err(BluetoothError))
            /\ UNCHANGED cmd_execution
    /\ UNCHANGED << command, executed, devVars, syncVars, histVars, fnVars, eventVars, wcVars, connVars, rhVars, tkVars >>

\* let data = session.read_characteristic_value(command_result.id).await?
\* T::from_data(data.as_slice())
CommandReadResult(c, ok) ==
    /\ pc[c] = "result"
    /\ IF ok
       THEN /\ calls' = [calls EXCEPT ![c] =
                           @ \o << << "read", "command_result" >>, << "from_data", "T" >> >>]
            /\ Return(c, Command_from_data(command[c], dev_result))
       ELSE /\ calls' = [calls EXCEPT ![c] = Append(@, << "read", "command_result" >>)]
            /\ Return(c, Err(BluetoothError))
    /\ UNCHANGED << command, cmd_execution, executed, devVars, syncVars, histVars, fnVars, eventVars, wcVars, connVars, rhVars, tkVars >>

(***************************************************************************)
(* TimeFlip::sync                                                          *)
(***************************************************************************)
\* variant: the flash flag is not looked at
HardwareError_no_flash(state) ==
    IF state.accelerometer_error THEN "AccelerometerError" ELSE "None"

\* variant: the flash flag is looked at first
HardwareError_flash_first(state) ==
    IF state.flash_error THEN "FlashError"
    ELSE IF state.accelerometer_error THEN "AccelerometerError"
    ELSE "None"

\* the two hardware-error returns at the head of the loop body
HardwareError(state) ==
    IF state.accelerometer_error THEN "AccelerometerError"
    ELSE IF state.flash_error THEN "FlashError"
    ELSE "None"

\* variants: the check is missing; the comparison is inverted; the
\* comparison is dropped
NonProgress_missing(last, sync) == FALSE
NonProgress_inverted(last, sync) == last # "None" /\ last # sync
NonProgress_always(last, sync) == last # "None"

\* if let Some(last_sync) = last_sync { if last_sync == sync_state.sync ...
NonProgress(last, sync) == last # "None" /\ last = sync

\* variant: the FactoryReset arm returns as well
IsTerminal_factory_reset(sync) == sync \in {"Synchronized", "FactoryReset"}

\* the arm `Synchronized => return Ok(())`
IsTerminal(sync) == sync = "Synchronized"

\* variant: the per-side loops stop one side early
SyncIterations_short(sync, cfg) ==
    CASE sync \in {"FacetColor", "TaskParameters"} -> Len(cfg.sides) - 1
      [] sync = "Synchronized" -> 0
      [] OTHER -> 1

\* number of commands the arm of `match sync_state.sync` issues
SyncIterations(sync, cfg) ==
    CASE sync \in {"FacetColor", "TaskParameters"} -> Len(cfg.sides)
      [] sync = "Synchronized" -> 0
      [] OTHER -> 1

\* the command the arm issues at index idx of its loop (Facet::new(i + 1)?)
SyncCommand(sync, idx, cfg, now) ==
    CASE sync \in {"FactoryReset", "Time"} -> Ok(Time(now))
      [] sync = "FacetColor" ->
            IF Facet_new(idx + 1).tag = "Ok"
            THEN Ok(SetColor(Facet_new(idx + 1).val, cfg.sides[idx + 1].color))
            ELSE Facet_new(idx + 1)
      [] sync = "LedBrightness" -> Ok(Brightness(cfg.brightness))
      [] sync = "BlinkInterval" -> Ok(BlinkInterval(cfg.blink_interval))
      [] sync = "TaskParameters" ->
            IF Facet_new(idx + 1).tag = "Ok"
            THEN Ok(SetTaskParameter(Facet_new(idx + 1).val, cfg.sides[idx + 1].task))
            ELSE Facet_new(idx + 1)
      [] sync = "AutoPause" -> Ok(AutoPauseTime(cfg.auto_pause))

\* variant: the task of a facet is written before its colour
WriteConfigCommand_task_first(cfg, step) ==
    CASE step = 0 -> Ok(Brightness(cfg.brightness))
      [] step = 1 -> Ok(BlinkInterval(cfg.blink_interval))
      [] step = 2 -> Ok(AutoPauseTime(cfg.auto_pause))
      [] OTHER ->
            LET i == (step - 3) \div 2
                facet == Facet_new(i + 1)
            IN  IF facet.tag # "Ok" THEN facet
                ELSE IF (step - 3) % 2 = 1
                THEN Ok(SetColor(facet.val, cfg.sides[i + 1].color))
                ELSE Ok(SetTaskParameter(facet.val, cfg.sides[i + 1].task))

\* the command write_config issues at position step, counted from 0:
\* brightness, blink_interval, auto_pause, then per side (index i, facet
\* Facet::new(i + 1)?) color and task
WriteConfigCommand(cfg, step) ==
    CASE step = 0 -> Ok(Brightness(cfg.brightness))
      [] step = 1 -> Ok(BlinkInterval(cfg.blink_interval))
      [] step = 2 -> Ok(AutoPauseTime(cfg.auto_pause))
      [] OTHER ->
            LET i == (step - 3) \div 2
                facet == Facet_new(i + 1)
            IN  IF facet.tag # "Ok" THEN facet
                ELSE IF (step - 3) % 2 = 0
                THEN Ok(SetColor(facet.val, cfg.sides[i + 1].color))
                ELSE Ok(SetTaskParameter(facet.val, cfg.sides[i + 1].task))

SyncReturn(r) ==
    /\ sync_pc' = "returned"
    /\ sync_ret' = r

\* self.color / self.task / ... : enter self.command with the command of
\* index idx, or leave with the error of Facet::new
SyncIssue(sync, idx, now) ==
    LET c == SyncCommand(sync, idx, config, now)
    IN  IF c.tag = "Ok"
        THEN /\ Invoke("sync", c.val)
             /\ side_i' = idx
             /\ sync_pc' = "call"
             /\ UNCHANGED sync_ret
        ELSE /\ SyncReturn(c)
             /\ UNCHANGED << side_i, cmdVars >>

\* variant: a status that has been read and decoded is used again
Sync_state_cached(ok, data) ==
    IF sync_state.tag = "Ok" THEN sync_state
    ELSE IF ok THEN SyncState_from_data(data) ELSE Err(BluetoothError)

\* TimeFlip::sync_state: read the system state characteristic and decode it
Sync_state(ok, data) ==
    IF ok THEN SyncState_from_data(data) ELSE Err(BluetoothError)

\* one pass of the loop head: self.sync_state().await?, the hardware and
\* non-progress checks, and the dispatch up to its first transport call
SyncRead(ok, data, now, cap) ==
    /\ sync_pc = "read"
    /\ nreads' = Min(nreads + 1, cap)
    /\ written' = << >>
    /\ LET st == Sync_state(ok, data)
       IN  /\ sync_state' = st
           /\ IF st.tag # "Ok"
              THEN SyncReturn(st) /\ UNCHANGED << side_i, cmdVars >>
              ELSE IF HardwareError(st.val) # "None"
              THEN /\ SyncReturn(Err([kind |-> HardwareError(st.val)]))
                   /\ UNCHANGED << side_i, cmdVars >>
              ELSE IF NonProgress(last_sync, st.val.sync)
              THEN /\ SyncReturn(Err([kind |-> "SyncError", arg |-> last_sync]))
                   /\ UNCHANGED << side_i, cmdVars >>
              ELSE IF IsTerminal(st.val.sync)
              THEN SyncReturn(Ok(Unit)) /\ UNCHANGED << side_i, cmdVars >>
              ELSE SyncIssue(st.val.sync, 0, now)
    /\ UNCHANGED << config, last_sync, devVars, histVars, fnVars, eventVars, wcVars, connVars, rhVars, tkVars >>

\* variant: only a transport error leaves the arm
Try_fails_transport_only(r) == r.tag # "Ok" /\ r.err.kind = "Bluetooth"

\* the `?` after self.color(..).await, self.task(..).await, ...: whether the
\* result makes sync return
Try_fails(r) == r.tag # "Ok"

\* self.command returned inside an arm: `?`, the next command of the arm, or
\* last_sync = Some(sync_state.sync) and back to the loop head
SyncContinue ==
    /\ sync_pc = "call"
    /\ pc["sync"] = "done"
    /\ IF Try_fails(ret["sync"])
       THEN /\ SyncReturn(ret["sync"])
            /\ UNCHANGED << last_sync, side_i, cmdVars >>
       ELSE IF side_i + 1 < SyncIterations(sync_state.val.sync, config)
       THEN /\ SyncIssue(sync_state.val.sync, side_i + 1, 0)
            /\ UNCHANGED last_sync
       ELSE /\ last_sync' = sync_state.val.sync
            /\ sync_pc' = "read"
            /\ Leave("sync")
            /\ UNCHANGED << side_i, sync_ret >>
    /\ UNCHANGED << config, sync_state, nreads, written, declared, plan, devVars, histVars, fnVars, eventVars, wcVars, connVars, rhVars, tkVars >>

(***************************************************************************)
(* sync against an arbitrary device                                        *)
(***************************************************************************)
InitConnectIdle ==
    /\ cn_pc = "idle"
    /\ cn_devices = << >>
    /\ cn_password = "None"
    /\ cn_device = 0
    /\ cn_handles = << >>
    /\ cn_calls = << >>
    /\ cn_ret = NoRet

InitReadHistoryEntryIdle ==
    /\ rh_pc = "idle"
    /\ rh_fn = "none"
    /\ rh_id = << 0, 0 >>
    /\ rh_calls = << >>
    /\ rh_ret = NoRet

NoSelection == [tag |-> "None"]

InitTimekeeperIdle ==
    /\ tk_state = "idle"
    /\ tk_items = << >>
    /\ tk_selected = NoSelection
    /\ tk_entries = << >>
    /\ tk_show_invisible = FALSE
    /\ tk_textarea = ""
    /\ tk_last = [src |-> "none"]

InitWriteConfigIdle ==
    /\ InitConnectIdle
    /\ InitReadHistoryEntryIdle
    /\ InitTimekeeperIdle
    /\ wc_pc = "idle"
    /\ wc_config = Config_default
    /\ wc_step = 0
    /\ wc_log = << >>
    /\ wc_ret = NoRet

InitEventStreamIdle ==
    /\ InitWriteConfigIdle
    /\ es_pc = "idle"
    /\ es_ret = NoRet
    /\ es_in = << >>
    /\ es_ends = FALSE
    /\ es_taken = 0
    /\ es_out = << >>
    /\ last_subscribe = << >>

InitApplyIdle ==
    /\ fn_name = "none"
    /\ fn_in = << >>
    /\ fn_out = NoRet
    /\ InitEventStreamIdle

InitHistoryIdle ==
    /\ hist_pc = "idle"
    /\ since_id = 0
    /\ entries = << >>
    /\ hist_ret = NoRet
    /\ stream = << >>
    /\ stream_ends = FALSE
    /\ consumed = 0
    /\ notifying = {}
    /\ stop_calls = 0
    /\ dev_history = << >>
    /\ hist_calls = << >>

InitCommandIdle ==
    /\ pc = [c \in Callers |-> "idle"]
    /\ command = [c \in Callers |-> NoCommand]
    /\ cmd_execution = [c \in Callers |-> << >>]
    /\ calls = [c \in Callers |-> << >>]
    /\ ret = [c \in Callers |-> NoRet]
    /\ executed = [c \in Callers |-> FALSE]
    /\ dev_command = << >>
    /\ dev_result = << >>

InitSync ==
    /\ config \in Configs
    /\ sync_pc = "read"
    /\ last_sync = "None"
    /\ sync_state = NoRet
    /\ side_i = 0
    /\ sync_ret = NoRet
    /\ nreads = 0
    /\ written = << >>
    /\ declared = {}
    /\ plan = << >>

Init == InitSync /\ InitCommandIdle /\ InitHistoryIdle /\ InitApplyIdle

\* the echoes the device may give to the command caller c is writing
Replies(c) ==
    IF pc[c] = "write" THEN EchoReplies(Command_to_vec(command[c])) ELSE {}

\* the echoes sync's device gives: executed, rejected, garbled
SyncReplies ==
    IF pc["sync"] = "write"
    THEN LET w == Command_to_vec(command["sync"])
         IN  { EchoExecuted(w), << w[1], 1 >>, << >> }
    ELSE {}

SyncReadAny ==
    /\ \E data \in StatusData, now \in 1..MaxNow : SyncRead(TRUE, data, now, MaxReads)
    /\ UNCHANGED << declared, plan >>

SyncReadFails ==
    /\ SyncRead(FALSE, << >>, 0, MaxReads)
    /\ UNCHANGED << declared, plan >>

Next ==
    \/ SyncReadAny
    \/ SyncReadFails
    \/ \E reply \in SyncReplies : CommandWrite("sync", TRUE, reply)
    \/ CommandWrite("sync", FALSE, << >>)
    \/ \E ok \in BOOLEAN : CommandReadEcho("sync", ok)
    \/ \E ok \in BOOLEAN : CommandReadResult("sync", ok)
    \/ SyncContinue

Spec == Init /\ [][Next]_vars

(***************************************************************************)
(* sync against a well-behaved device: every transport call succeeds, every *)
(* command is executed, no hardware flag is raised, and a directive that   *)
(* has been declared is never declared again.                              *)
(***************************************************************************)
InitNormal == Init

ExecutedReply(c) ==
    IF pc[c] = "write" THEN { EchoExecuted(Command_to_vec(command[c])) } ELSE {}

SyncReadNormal ==
    /\ \E d \in SyncTypes \ declared, now \in 1..MaxNow :
          /\ SyncRead(TRUE, StatusWord(d) \o << 0, 0 >>, now, MaxReadsLong)
          /\ declared' = declared \cup {d}
    /\ UNCHANGED plan

CommandSucceeds ==
    \/ \E reply \in ExecutedReply("sync") : CommandWrite("sync", TRUE, reply)
    \/ CommandReadEcho("sync", TRUE)
    \/ CommandReadResult("sync", TRUE)

NextNormal ==
    \/ SyncReadNormal
    \/ CommandSucceeds
    \/ SyncContinue

SpecNormal == InitNormal /\ [][NextNormal]_vars /\ WF_vars(NextNormal)

(***************************************************************************)
(* sync against a device that declares two directives in turn, for ever    *)
(***************************************************************************)
InitAlternating ==
    /\ config \in Configs
    /\ sync_pc = "read"
    /\ last_sync = "None"
    /\ sync_state = NoRet
    /\ side_i = 0
    /\ sync_ret = NoRet
    /\ nreads = 0
    /\ written = << >>
    /\ declared = {}
    /\ plan \in { << a, b >> : a, b \in SyncTypes \ {"Synchronized"} } \ { << a, a >> : a \in SyncTypes }
    /\ InitCommandIdle
    /\ InitHistoryIdle
    /\ InitApplyIdle

SyncReadAlternating ==
    /\ \E now \in 1..MaxNow :
          SyncRead(TRUE, StatusWord(plan[1]) \o << 0, 0 >>, now, MaxReadsLong)
    /\ plan' = << plan[2], plan[1] >>
    /\ UNCHANGED declared

NextAlternating ==
    \/ SyncReadAlternating
    \/ CommandSucceeds
    \/ SyncContinue

SpecAlternating == InitAlternating /\ [][NextAlternating]_vars

(***************************************************************************)
(* Properties of TimeFlip::sync                                            *)
(***************************************************************************)
SyncActive == pc["sync"] \in {"write", "echo", "result", "done"}
NoHardwareFlag(st) == st.tag = "Ok" /\ ~st.val.accelerometer_error /\ ~st.val.flash_error
SyncReturnedErr(kind) ==
    sync_pc = "returned" /\ sync_ret.tag = "Err" /\ sync_ret.err.kind = kind

\* once sync has returned it makes no transport call: nothing changes
ReturnedIsFinal == sync_pc = "returned" => UNCHANGED vars

\* C1: when a status read decodes, without hardware flag, to the directive D
\* of the read before it (D is not Synchronized), sync returns SyncError(D)
\* in that very step; no command is written after the read and no further
\* read follows.
C1_NonProgress ==
    [][ /\ ReturnedIsFinal
        /\ ( /\ sync_pc = "read" /\ sync_pc' # "read"
             /\ sync_state.tag = "Ok"
             /\ NoHardwareFlag(sync_state')
             /\ sync_state'.val.sync = sync_state.val.sync
             /\ sync_state.val.sync # "Synchronized" )
           => ( /\ sync_pc' = "returned"
                /\ sync_ret' = Err([kind |-> "SyncError", arg |-> sync_state.val.sync])
                /\ written' = << >>
                /\ ~SyncActive' ) ]_vars

C1_Witness ==
    /\ SyncReturnedErr("SyncError")
    /\ sync_ret.err.arg = "Time"
    /\ nreads = 2
    /\ NoHardwareFlag(sync_state) /\ sync_state.val.sync = "Time"
    /\ last_sync = "Time"

\* C2: a status read that decodes with the accelerometer or the flash flag set
\* makes sync fail with AccelerometerError resp. FlashError, whatever the
\* directive; no command is written in that iteration and sync has returned.
C2_HardwareErrorFails ==
    ( sync_state.tag = "Ok"
      /\ (sync_state.val.accelerometer_error \/ sync_state.val.flash_error) )
    => /\ sync_pc = "returned"
       /\ sync_ret.tag = "Err"
       /\ sync_ret.err.kind \in {"AccelerometerError", "FlashError"}
       /\ (~sync_state.val.flash_error => sync_ret.err.kind = "AccelerometerError")
       /\ (~sync_state.val.accelerometer_error => sync_ret.err.kind = "FlashError")
       /\ written = << >>
       /\ ~SyncActive

C2_Witness ==
    /\ SyncReturnedErr("FlashError")
    /\ sync_state.tag = "Ok" /\ sync_state.val.sync = "FacetColor"
    /\ sync_state.val.flash_error
    /\ nreads = 2
    /\ last_sync = "Time"

\* C3: sync returns Ok exactly when a status read decodes to Synchronized
\* without hardware flag; it is then inside no command and has written
\* nothing since that read, and when that read was the first one the device
\* has received no command at all.
C3_SynchronizedTerminal ==
    /\ ( NoHardwareFlag(sync_state) /\ sync_state.val.sync = "Synchronized" )
         <=> ( sync_pc = "returned" /\ sync_ret = Ok(Unit) )
    /\ ( sync_pc = "returned" /\ sync_ret = Ok(Unit) )
         => ( written = << >> /\ ~SyncActive )
    /\ ( sync_pc = "returned" /\ sync_ret = Ok(Unit) /\ nreads = 1 )
         => ( dev_command = << >> /\ dev_result = << >> /\ last_sync = "None" )

C3_Witness ==
    /\ sync_pc = "returned" /\ sync_ret = Ok(Unit)
    /\ nreads = 1
    /\ sync_state.val.sync = "Synchronized"

DirectiveCommandName(sync) ==
    CASE sync \in {"FactoryReset", "Time"} -> "Time"
      [] sync = "FacetColor" -> "SetColor"
      [] sync = "LedBrightness" -> "Brightness"
      [] sync = "BlinkInterval" -> "BlinkInterval"
      [] sync = "TaskParameters" -> "SetTaskParameter"
      [] sync = "AutoPause" -> "AutoPauseTime"
      [] sync = "Synchronized" -> "none"

DirectiveCommandCount(sync) ==
    CASE sync \in {"FacetColor", "TaskParameters"} -> 12
      [] sync = "Synchronized" -> 0
      [] OTHER -> 1

\* C4: the commands written since a status read are those of the directive
\* read, in order: one Time for FactoryReset and Time, SetColor for facets
\* 1..12 for FacetColor, one Brightness for LedBrightness, one BlinkInterval
\* for BlinkInterval, SetTaskParameter for facets 1..12 for TaskParameters,
\* one AutoPauseTime for AutoPause, none for Synchronized; when the next
\* read is due the list is complete.
C4_CommandsOfDirective ==
    /\ sync_state.tag # "Ok" => written = << >>
    /\ sync_state.tag = "Ok" =>
         /\ Len(written) <= DirectiveCommandCount(sync_state.val.sync)
         /\ \A k \in 1..Len(written) :
               /\ written[k].name = DirectiveCommandName(sync_state.val.sync)
               /\ written[k].name \in {"SetColor", "SetTaskParameter"}
                     => written[k].facet = k
         /\ sync_pc = "read" =>
               Len(written) = DirectiveCommandCount(sync_state.val.sync)

C4_Witness ==
    /\ sync_pc = "read"
    /\ sync_state.tag = "Ok" /\ sync_state.val.sync = "TaskParameters"
    /\ last_sync = "TaskParameters"
    /\ Len(written) = 12
    /\ written[12] = SetTaskParameter(12, Config_custom.sides[12].task)
    /\ nreads = 2

\* C5: against a well-behaved device sync never issues more than 8 status
\* reads, is never stuck before it returns, returns only Ok and only on
\* Synchronized, and does return.
C5_BoundedByDirectives ==
    /\ [] ( /\ nreads <= 8
            /\ sync_pc = "returned" =>
                  ( sync_ret = Ok(Unit) /\ sync_state.val.sync = "Synchronized" )
            /\ sync_pc # "returned" => ENABLED NextNormal )
    /\ <> ( sync_pc = "returned" )

C5_Witness ==
    /\ sync_pc = "returned" /\ sync_ret = Ok(Unit)
    /\ nreads = 8
    /\ declared = SyncTypes

\* C6: against a device that declares two different directives in turn,
\* with every command executed and no hardware flag, sync never returns and
\* is always able to take its next step; the number of its status reads is
\* not bounded.
C6_NoIterationBound ==
    /\ sync_pc # "returned"
    /\ sync_ret = NoRet
    /\ ENABLED NextAlternating

C6_Witness ==
    /\ nreads = MaxReadsLong
    /\ sync_pc = "read"
    /\ plan = << "Time", "FacetColor" >>
    /\ last_sync = "FacetColor"

(***************************************************************************)
(* Callers of TimeFlip::command sharing one TimeFlip (&self): get_task,    *)
(* pause and system_status, issued concurrently                            *)
(***************************************************************************)
ClientCommands == { GetTaskParameter(1), GetTaskParameter(2), PauseMode(TRUE) }

InitSyncIdle ==
    /\ config = Config_default
    /\ sync_pc = "idle"
    /\ last_sync = "None"
    /\ sync_state = NoRet
    /\ side_i = 0
    /\ sync_ret = NoRet
    /\ nreads = 0
    /\ written = << >>
    /\ declared = {}
    /\ plan = << >>

InitCommand == InitSyncIdle /\ InitCommandIdle /\ InitHistoryIdle /\ InitApplyIdle

\* self.get_task(facet) / self.pause(): enter self.command
ClientCall(c, cmd) ==
    /\ pc[c] = "idle"
    /\ Invoke(c, cmd)
    /\ UNCHANGED << syncVars, devVars, histVars, fnVars, eventVars, wcVars, connVars, rhVars, tkVars >>

NextCommand ==
    \/ \E c \in Clients, cmd \in ClientCommands : ClientCall(c, cmd)
    \/ \E c \in Clients : \E reply \in Replies(c) : CommandWrite(c, TRUE, reply)
    \/ \E c \in Clients : CommandWrite(c, FALSE, << >>)
    \/ \E c \in Clients, ok \in BOOLEAN : CommandReadEcho(c, ok)
    \/ \E c \in Clients, ok \in BOOLEAN : CommandReadResult(c, ok)

SpecCommand == InitCommand /\ [][NextCommand]_vars

(***************************************************************************)
(* Properties of TimeFlip::command                                         *)
(***************************************************************************)
CommandSteps ==
    << << "write", "command" >>, << "read", "command" >>,
       << "read", "command_result" >>, << "from_data", "T" >> >>

IsErr(r, kind) == r.tag = "Err" /\ r.err.kind = kind

\* the echo caller c re-read is not [id of its command, 0x02, ...]
BadEcho(c) ==
    \/ Len(cmd_execution[c]) < 2
    \/ cmd_execution[c][1] # Command_id(command[c])
    \/ cmd_execution[c][2] # 2

\* caller c has re-read the command characteristic
EchoRead(c) ==
    /\ Len(calls[c]) >= 2
    /\ ~(Len(calls[c]) = 2 /\ IsErr(ret[c], "Bluetooth"))

\* C7: an activation of command makes its steps in the order write(command),
\* read(command), read(command_result), decode; when the bytes re-read from
\* the command characteristic are shorter than 2, or byte 0 is not the id of
\* the command, or byte 1 is not 0x02, it returns CommandExecutionFailed
\* having neither read command_result nor run a decoder, and it returns
\* CommandExecutionFailed in no other case.
C7_EchoCheck ==
    \A c \in Clients :
        /\ calls[c] = SubSeq(CommandSteps, 1, Len(calls[c]))
        /\ pc[c] = "done" <=> ret[c].tag # "None"
        /\ ( EchoRead(c) /\ BadEcho(c) )
              => ( /\ pc[c] = "done"
                   /\ IsErr(ret[c], "CommandExecutionFailed")
                   /\ calls[c] = SubSeq(CommandSteps, 1, 2) )
        /\ IsErr(ret[c], "CommandExecutionFailed") => ( EchoRead(c) /\ BadEcho(c) )
        /\ ret[c].tag = "Ok" => calls[c] = CommandSteps

C7_Witness ==
    /\ \A c \in Clients : IsErr(ret[c], "CommandExecutionFailed")
    /\ cmd_execution["c1"] = << 20 >>
    /\ cmd_execution["c2"] = << 20, 1 >>
    /\ command["c3"] = PauseMode(TRUE) /\ cmd_execution["c3"] = << 7, 2 >>

\* caller d's command has reached the device
HasWritten(d) ==
    /\ Len(calls[d]) >= 1
    /\ ~(Len(calls[d]) = 1 /\ IsErr(ret[d], "Bluetooth"))

Misattributed(c) ==
    /\ command[c].name = "GetTaskParameter"
    /\ ret[c].tag = "Ok"
    /\ ret[c].val.facet # command[c].facet

SpuriousFailure(c) ==
    /\ executed[c]
    /\ IsErr(ret[c], "CommandExecutionFailed")

\* C8: command takes no lock: a caller about to write can write while another
\* caller is between its write and its result read.  The FacetSettings a
\* get_task call returns are those of some executed GetTaskParameter command,
\* not necessarily its own; a call returns the settings of another facet, or
\* fails its echo check although the device executed its command, only when
\* another caller's command has reached the device.
C8_NotAtomic ==
    \A c \in Clients :
        /\ pc[c] = "write" =>
              ENABLED CommandWrite(c, TRUE, EchoExecuted(Command_to_vec(command[c])))
        /\ ( command[c].name = "GetTaskParameter" /\ ret[c].tag = "Ok" )
              => \E d \in Clients :
                    /\ command[d] = GetTaskParameter(ret[c].val.facet)
                    /\ executed[d]
        /\ ( Misattributed(c) \/ SpuriousFailure(c) )
              => \E d \in Clients \ {c} : HasWritten(d)

C8_Witness ==
    /\ command["c1"] = GetTaskParameter(1)
    /\ command["c2"] = GetTaskParameter(2)
    /\ Misattributed("c1")
    /\ ret["c1"].val.facet = 2
    /\ SpuriousFailure("c2")
    /\ executed["c1"] /\ executed["c3"]

(***************************************************************************)
(* TimeFlip::read_history_since                                            *)
(***************************************************************************)
\* a history record as the device lays it out: id, facet with pause bit,
\* start time, duration
Record(id, facet, time, duration) ==
    put_u32(id) \o << facet >> \o put_u64(time) \o put_u32(duration)

EndRecord == [k \in 1..17 |-> 0]

\* BluetoothEvent values the transport's stream can carry, by name
BluetoothEvent(name) ==
    CASE name = "entry5" ->
            [kind |-> "Value", id |-> "history", value |-> Record(5, 1, 1000, 30)]
      [] name = "entry3" ->
            [kind |-> "Value", id |-> "history", value |-> Record(3, 2, 900, 6)]
      [] name = "entry7" ->
            [kind |-> "Value", id |-> "history", value |-> Record(7, 140, 1100, 30)]
      [] name = "end" ->
            [kind |-> "Value", id |-> "history", value |-> EndRecord]
      [] name = "short" ->
            [kind |-> "Value", id |-> "history", value |-> SubSeq(Record(4, 1, 1000, 30), 1, 16)]
      [] name = "facet13" ->
            [kind |-> "Value", id |-> "history", value |-> Record(9, 13, 1200, 10)]
      [] name = "badtime" ->
            [kind |-> "Value", id |-> "history",
             value |-> put_u32(8) \o << 3 >> \o << 255, 0, 0, 0, 0, 0, 0, 0 >> \o put_u32(10)]
      [] name = "other_id" ->
            [kind |-> "Value", id |-> "facet", value |-> Record(6, 1, 1000, 30)]
      [] name = "connected" ->
            [kind |-> "Device", id |-> "device", value |-> << >>]

EventNames ==
    { "entry5", "entry3", "entry7", "end", "short", "facet13", "badtime",
      "other_id", "connected" }

RECURSIVE SeqsUpTo(_, _)
SeqsUpTo(S, n) ==
    IF n = 0 THEN { << >> }
    ELSE LET shorter == SeqsUpTo(S, n - 1)
         IN  shorter \cup { Append(q, x) : q \in { r \in shorter : Len(r) = n - 1 }, x \in S }

\* variant: a new entry is put in front
Push_front(list, entry) == << entry >> \o list

\* entries.push(entry)
Push(list, entry) == Append(list, entry)

\* variant: the sentinel is skipped like an unparsable record
IsEndOfHistory_never(res) == FALSE

\* Err(gatt::EntryError::EndOfHistory) => break
IsEndOfHistory(res) == res.tag = "Err" /\ res.err.kind = "EndOfHistory"

HistReturn(r) ==
    /\ hist_pc' = "returned"
    /\ hist_ret' = r

InvalidCharacteristicData == [kind |-> "InvalidCharacteristicData"]

\* variant: the event stream is opened after the request has been written
HistAfter_stream_late(step) ==
    CASE step = "start_notify" -> "write_request"
      [] step = "write_request" -> "open_stream"
      [] step = "open_stream" -> "next"

\* the statement that follows a transport call of read_history_since that
\* succeeded
HistAfter(step) ==
    CASE step = "start_notify" -> "open_stream"
      [] step = "open_stream" -> "write_request"
      [] step = "write_request" -> "next"

\* session.start_notify(history.id).await?
HistStartNotify(ok) ==
    /\ hist_pc = "start_notify"
    /\ hist_calls' = Append(hist_calls, << "start_notify", ok >>)
    /\ IF ok
       THEN /\ notifying' = notifying \cup {"history"}
            /\ hist_pc' = HistAfter("start_notify")
            /\ UNCHANGED hist_ret
       ELSE /\ HistReturn(Err(BluetoothError))
            /\ UNCHANGED notifying
    /\ UNCHANGED << since_id, entries, stream, stream_ends, consumed, stop_calls, dev_history >>
    /\ UNCHANGED << syncVars, cmdVars, devVars, fnVars, eventVars, wcVars, connVars, rhVars, tkVars >>

\* let mut stream = session.characteristic_event_stream(history.id).await?
HistOpenStream(ok) ==
    /\ hist_pc = "open_stream"
    /\ hist_calls' = Append(hist_calls, << "characteristic_event_stream", ok >>)
    /\ IF ok
       THEN hist_pc' = HistAfter("open_stream") /\ UNCHANGED hist_ret
       ELSE HistReturn(Err(BluetoothError))
    /\ UNCHANGED << since_id, entries, stream, stream_ends, consumed, notifying,
                    stop_calls, dev_history >>
    /\ UNCHANGED << syncVars, cmdVars, devVars, fnVars, eventVars, wcVars, connVars, rhVars, tkVars >>

\* read_command = [0x02, id]; session.write_characteristic_value(history.id,
\* read_command).await?; let mut entries = vec![]
HistWriteRequest(ok) ==
    /\ hist_pc = "write_request"
    /\ hist_calls' = Append(hist_calls, << "write_characteristic_value", ok >>)
    /\ IF ok
       THEN /\ dev_history' = << 2 >> \o put_u32(since_id)
            /\ hist_pc' = HistAfter("write_request")
            /\ UNCHANGED hist_ret
       ELSE /\ HistReturn(Err(BluetoothError))
            /\ UNCHANGED dev_history
    /\ entries' = << >>
    /\ UNCHANGED << since_id, stream, stream_ends, consumed, notifying, stop_calls >>
    /\ UNCHANGED << syncVars, cmdVars, devVars, fnVars, eventVars, wcVars, connVars, rhVars, tkVars >>

\* variant: the characteristic id of the event is not compared
IsHistoryNotification_any_id(event) == event.kind = "Value"

\* BluetoothEvent::Characteristic { id, event: CharacteristicEvent::Value { value } }
\* with id == self.characteristics.history.id
IsHistoryNotification(event) == event.kind = "Value" /\ event.id = "history"

\* variant: a stream with nothing buffered yields None at once
Stream_next_exhausted_none(ends) == "None"

\* stream.next().await on a stream all of whose events were consumed: None
\* once the transport has ended the stream, pending until then
Stream_next_exhausted(ends) == IF ends THEN "None" ELSE "Pending"

\* one turn of `while let Some(event) = stream.next().await`, with the body
\* of the loop; None leaves the loop
HistNext ==
    /\ hist_pc = "next"
    /\ IF consumed < Len(stream)
       THEN LET event == BluetoothEvent(stream[consumed + 1])
                res == Entry_from_data(event.value)
            IN  /\ consumed' = consumed + 1
                /\ IF ~IsHistoryNotification(event)
                   THEN /\ HistReturn(Err(InvalidCharacteristicData))
                        /\ UNCHANGED entries
                   ELSE IF res.tag = "Ok"
                   THEN /\ entries' = Push(entries, res.val)
                        /\ UNCHANGED << hist_pc, hist_ret >>
                   ELSE IF IsEndOfHistory(res)
                   THEN /\ hist_pc' = "stop_notify"
                        /\ UNCHANGED << entries, hist_ret >>
                   ELSE UNCHANGED << entries, hist_pc, hist_ret >>
       ELSE /\ Stream_next_exhausted(stream_ends) = "None"
            /\ hist_pc' = "stop_notify"
            /\ UNCHANGED << consumed, entries, hist_ret >>
    /\ UNCHANGED << since_id, stream, stream_ends, notifying, stop_calls, dev_history,
                    hist_calls >>
    /\ UNCHANGED << syncVars, cmdVars, devVars, fnVars, eventVars, wcVars, connVars, rhVars, tkVars >>

\* session.stop_notify(history.id).await?; Ok(entries)
HistStopNotify(ok) ==
    /\ hist_pc = "stop_notify"
    /\ stop_calls' = stop_calls + 1
    /\ hist_calls' = Append(hist_calls, << "stop_notify", ok >>)
    /\ IF ok
       THEN /\ notifying' = notifying \ {"history"}
            /\ HistReturn(Ok(entries))
       ELSE /\ HistReturn(Err(BluetoothError))
            /\ UNCHANGED notifying
    /\ UNCHANGED << since_id, entries, stream, stream_ends, consumed, dev_history >>
    /\ UNCHANGED << syncVars, cmdVars, devVars, fnVars, eventVars, wcVars, connVars, rhVars, tkVars >>

InitHistory ==
    /\ InitSyncIdle
    /\ InitApplyIdle
    /\ InitCommandIdle
    /\ hist_pc = "start_notify"
    /\ since_id = 270
    /\ entries = << >>
    /\ hist_ret = NoRet
    /\ stream \in SeqsUpTo(EventNames, MaxEvents)
    /\ stream_ends \in BOOLEAN
    /\ consumed = 0
    /\ notifying = {}
    /\ stop_calls = 0
    /\ dev_history = << >>
    /\ hist_calls = << >>

NextHistory ==
    \/ \E ok \in BOOLEAN : HistStartNotify(ok)
    \/ \E ok \in BOOLEAN : HistOpenStream(ok)
    \/ \E ok \in BOOLEAN : HistWriteRequest(ok)
    \/ HistNext
    \/ \E ok \in BOOLEAN : HistStopNotify(ok)

SpecHistory == InitHistory /\ [][NextHistory]_vars

(***************************************************************************)
(* Claims about read_history_since                                         *)
(***************************************************************************)
IsHistoryValue(k) ==
    BluetoothEvent(stream[k]).kind = "Value" /\ BluetoothEvent(stream[k]).id = "history"

Payload(k) == BluetoothEvent(stream[k]).value

IsSentinel(k) == IsHistoryValue(k) /\ Payload(k) = EndRecord

\* the entries decoded from the first n events of the stream, in the order
\* of the stream
RECURSIVE Delivered(_)
Delivered(n) ==
    IF n = 0 THEN << >>
    ELSE IF IsHistoryValue(n) /\ Entry_from_data(Payload(n)).tag = "Ok"
    THEN Delivered(n - 1) \o << Entry_from_data(Payload(n)).val >>
    ELSE Delivered(n - 1)

Ids(list) == [k \in 1..Len(list) |-> list[k].id]

SentinelConsumed == consumed > 0 /\ IsSentinel(consumed)

\* C9: the entries collected by read_history_since are the decoded history
\* notifications in the order of their delivery, neither sorted nor
\* deduplicated (ids delivered as 5, 3, 7 and then the sentinel are returned
\* as 5, 3, 7); nothing delivered after the sentinel is consumed; stop_notify
\* is called at most once, only after the sentinel (or the end of the
\* stream), and exactly once when the sentinel was consumed and the call has
\* returned.
C9_DeliveryOrder ==
    /\ entries = Delivered(consumed)
    /\ \A k \in 1..consumed : IsSentinel(k) => k = consumed
    /\ stop_calls <= 1
    /\ (stop_calls = 1 \/ hist_pc = "stop_notify") =>
           SentinelConsumed \/ (consumed = Len(stream) /\ stream_ends)
    /\ SentinelConsumed => hist_pc \in {"stop_notify", "returned"}
    /\ (SentinelConsumed /\ hist_pc = "returned") => stop_calls = 1
    /\ hist_ret.tag = "Ok" =>
           /\ hist_ret.val = Delivered(consumed)
           /\ stop_calls = 1
           /\ notifying = {}
           /\ (SubSeq(stream, 1, consumed) = << "entry5", "entry3", "entry7", "end" >>
                  => Ids(hist_ret.val) = << 5, 3, 7 >>)

C9_Witness ==
    /\ stream = << "entry5", "entry3", "entry7", "end" >>
    /\ hist_ret.tag = "Ok"
    /\ Ids(hist_ret.val) = << 5, 3, 7 >>
    /\ stop_calls = 1

\* the facet index a record's facet byte carries beside the pause bit
FacetIndex(byte) == IF byte > 127 THEN byte - 128 ELSE byte

\* a record the claim calls decodable: long enough, not the sentinel, facet
\* index within 1..12, timestamp valid
Decodable(data) ==
    /\ Len(data) >= 17
    /\ data # EndRecord
    /\ FacetIndex(data[5]) \in 1..12
    /\ TimestampRepresentable(SubSeq(data, 6, 13))

\* C10: a history notification that is too short, has an invalid facet or an
\* invalid timestamp adds no entry, so the collected entries are as many as
\* the decodable records consumed; it ends neither the collection nor the
\* call, so the loop is left only on the sentinel, the end of the stream or
\* an event that is no history notification.
C10_UndecodableSkipped ==
    /\ Len(entries) =
           Cardinality({ k \in 1..consumed : IsHistoryValue(k) /\ Decodable(Payload(k)) })
    /\ hist_pc = "stop_notify" =>
           SentinelConsumed \/ (consumed = Len(stream) /\ stream_ends)
    /\ (consumed > 0 /\ hist_ret.tag = "Err" /\ stop_calls = 0) =>
           ~IsHistoryValue(consumed)

Started == \E k \in 1..Len(hist_calls) : hist_calls[k] = << "start_notify", TRUE >>

StopCalled == \E k \in 1..Len(hist_calls) : hist_calls[k][1] = "stop_notify"

\* C11: whenever read_history_since has returned after a successful
\* start_notify on the history characteristic, stop_notify has been called on
\* it.
C11_UnsubscribedOnReturn ==
    (hist_pc = "returned" /\ Started) => StopCalled

FailedCall(k) == hist_calls[k][2] = FALSE

UnexpectedEventConsumed == consumed > 0 /\ ~IsHistoryValue(consumed)

\* C12: the first event that is no value change of the history characteristic
\* makes read_history_since return InvalidCharacteristicData at once, whatever
\* it has collected, and that error is returned for no other reason; a failed
\* start_notify, stream request, request write or stop_notify makes it return
\* the transport's error at once, and that error is returned for no other
\* reason.
C12_FailsOnUnexpectedEvent ==
    /\ UnexpectedEventConsumed <=>
           (hist_pc = "returned" /\ hist_ret = Err(InvalidCharacteristicData))
    /\ \A k \in 1..consumed : ~IsHistoryValue(k) => k = consumed
    /\ \A k \in 1..Len(hist_calls) : FailedCall(k) => k = Len(hist_calls)
    /\ (hist_calls # << >> /\ FailedCall(Len(hist_calls))) <=>
           (hist_pc = "returned" /\ hist_ret = Err(BluetoothError))

C12_Witness ==
    /\ SubSeq(stream, 1, consumed) = << "entry5", "other_id" >>
    /\ Len(entries) = 1
    /\ hist_ret = Err(InvalidCharacteristicData)

(***************************************************************************)
(* gatt.rs: Event                                                          *)
(***************************************************************************)
\* Percent::new
Percent_new_any_byte(percent) ==
    IF percent <= 255 THEN Ok(percent) ELSE Err([kind |-> "OutOfRange", arg |-> percent])

\* Percent::new; a Percent is represented by the value get() returns
Percent_new(percent) ==
    IF percent <= 100 THEN Ok(percent) ELSE Err([kind |-> "OutOfRange", arg |-> percent])

\* String::from_utf8: whether the bytes from position k on are well-formed
\* UTF-8
RECURSIVE Utf8From(_, _)
Utf8From(b, k) ==
    LET n == Len(b) - k + 1
        Cont(i, lo, hi) == b[k + i] >= lo /\ b[k + i] <= hi
    IN  IF n = 0 THEN TRUE
        ELSE IF b[k] < 128 THEN Utf8From(b, k + 1)
        ELSE IF b[k] >= 194 /\ b[k] <= 223
        THEN n >= 2 /\ Cont(1, 128, 191) /\ Utf8From(b, k + 2)
        ELSE IF b[k] >= 224 /\ b[k] <= 239
        THEN /\ n >= 3
             /\ Cont(1, IF b[k] = 224 THEN 160 ELSE 128, IF b[k] = 237 THEN 159 ELSE 191)
             /\ Cont(2, 128, 191)
             /\ Utf8From(b, k + 3)
        ELSE IF b[k] >= 240 /\ b[k] <= 244
        THEN /\ n >= 4
             /\ Cont(1, IF b[k] = 240 THEN 144 ELSE 128, IF b[k] = 244 THEN 143 ELSE 191)
             /\ Cont(2, 128, 191)
             /\ Cont(3, 128, 191)
             /\ Utf8From(b, k + 4)
        ELSE FALSE

\* a String is represented by its UTF-8 bytes
String_from_utf8(value) ==
    IF Utf8From(value, 1) THEN Ok(value) ELSE Err([kind |-> "FromUtf8Error"])

\* bluez_async::BluetoothEvent
CharacteristicValue(id, value) ==
    [kind |-> "Characteristic", event |-> "Value", id |-> id, value |-> value]
CharacteristicOther(id) == [kind |-> "Characteristic", event |-> "Other", id |-> id]
DeviceConnected(id, connected) ==
    [kind |-> "Device", event |-> "Connected", id |-> id, connected |-> connected]
DeviceOther(id) == [kind |-> "Device", event |-> "Other", id |-> id]
AdapterEvent == [kind |-> "Adapter", event |-> "Other", id |-> "adapter"]

\* EventHandles of the connected TimeFlip
Handles ==
    [ device_id |-> "timeflip", battery_level |-> "battery_level",
      last_event |-> "event", facet |-> "facet", double_tap |-> "double_tap" ]

\* Event
Disconnected == [kind |-> "Disconnected"]
BatteryLevelEvent(percent) == [kind |-> "BatteryLevel", percent |-> percent]
EventEvent(text) == [kind |-> "Event", text |-> text]
FacetEvent(facet) == [kind |-> "Facet", facet |-> facet]
DoubleTap(facet, pause) == [kind |-> "DoubleTap", facet |-> facet, pause |-> pause]

\* value.first().ok_or(TooShort(name)).and_then(decode)
FirstByte(value, name, decoded) ==
    IF Len(value) = 0 THEN Err([kind |-> "TooShort", arg |-> name]) ELSE decoded

\* Event::from_bluetooth_event, the arm of a value change
Event_of_value(id, value, handles) ==
    IF id = handles.battery_level
    THEN FirstByte(value, "Battery Level",
             IF Percent_new(value[1]).tag = "Ok"
             THEN Ok(BatteryLevelEvent(Percent_new(value[1]).val))
             ELSE Err([kind |-> "BatteryLevel", arg |-> Percent_new(value[1]).err]))
    ELSE IF id = handles.last_event
    THEN IF String_from_utf8(value).tag = "Ok"
         THEN Ok(EventEvent(String_from_utf8(value).val))
         ELSE Err([kind |-> "Event", arg |-> String_from_utf8(value).err])
    ELSE IF id = handles.facet
    THEN FirstByte(value, "Facet",
             IF Facet_new(value[1]).tag = "Ok"
             THEN Ok(FacetEvent(Facet_new(value[1]).val))
             ELSE Err([kind |-> "Facet", arg |-> Facet_new(value[1]).err]))
    ELSE IF id = handles.double_tap
    THEN FirstByte(value, "Double Tap",
             LET fp == IF value[1] > 127 THEN << value[1] - 128, TRUE >>
                                         ELSE << value[1], FALSE >>
             IN  IF Facet_new(fp[1]).tag = "Ok"
                 THEN Ok(DoubleTap(Facet_new(fp[1]).val, fp[2]))
                 ELSE Err([kind |-> "DoubleTap", arg |-> Facet_new(fp[1]).err]))
    ELSE Err([kind |-> "UnexpectedCharacteristic", arg |-> id])

\* variant: the connected flag is not looked at
Event_of_connected_any(id, connected, handles) ==
    IF id # handles.device_id THEN Err([kind |-> "UnexpectedDevice", arg |-> id])
    ELSE Ok(Disconnected)

\* Event::from_bluetooth_event, the arm of DeviceEvent::Connected
Event_of_connected(id, connected, handles) ==
    IF id # handles.device_id THEN Err([kind |-> "UnexpectedDevice", arg |-> id])
    ELSE IF connected THEN Err([kind |-> "IgnoreConnected"])
    ELSE Ok(Disconnected)

\* Event::from_bluetooth_event
Event_from_bluetooth_event(bt_event, handles) ==
    IF bt_event.kind = "Characteristic" /\ bt_event.event = "Value"
    THEN Event_of_value(bt_event.id, bt_event.value, handles)
    ELSE IF bt_event.kind = "Device" /\ bt_event.event = "Connected"
    THEN Event_of_connected(bt_event.id, bt_event.connected, handles)
    ELSE Err([kind |-> "UnexpectedEvent", arg |-> bt_event])

(***************************************************************************)
(* config.rs: sides_from_vec                                               *)
(***************************************************************************)
\* sides.sort_by(|a, b| a.facet.cmp(&b.facet)): a stable sort
RECURSIVE InsertSide(_, _)
InsertSide(sorted, side) ==
    IF sorted = << >> THEN << side >>
    ELSE IF sorted[Len(sorted)].facet <= side.facet THEN Append(sorted, side)
    ELSE Append(InsertSide(SubSeq(sorted, 1, Len(sorted) - 1), side), sorted[Len(sorted)])

RECURSIVE SortByFacet(_)
SortByFacet(sides) ==
    IF sides = << >> THEN << >>
    ELSE InsertSide(SortByFacet(SubSeq(sides, 1, Len(sides) - 1)), sides[Len(sides)])

\* for i in 1..=12 { if !indices.contains(&i) { sides.push(Side::default(i)) } }
RECURSIVE FillSides(_, _, _)
FillSides(sides, indices, i) ==
    IF i > 12 THEN sides
    ELSE FillSides(IF i \in indices THEN sides ELSE Append(sides, Side_default(i)),
                   indices, i + 1)

\* variant: the sides are returned in the order they were collected
Sides_from_vec_unsorted(sides) ==
    IF Len(sides) > 12 THEN Err([kind |-> "TooMany", arg |-> Len(sides)])
    ELSE LET indices == { sides[k].facet : k \in 1..Len(sides) }
             filled == FillSides(sides, indices, 1)
         IN  IF Len(filled) # 12 THEN Err([kind |-> "Duplicates"])
             ELSE Ok(filled)

\* sides_from_vec
Sides_from_vec(sides) ==
    IF Len(sides) > 12 THEN Err([kind |-> "TooMany", arg |-> Len(sides)])
    ELSE LET indices == { sides[k].facet : k \in 1..Len(sides) }
             filled == FillSides(sides, indices, 1)
         IN  IF Len(filled) # 12 THEN Err([kind |-> "Duplicates"])
             ELSE Ok(SortByFacet(filled))

(***************************************************************************)
(* Constructors and decoders, applied once to an input.                    *)
(***************************************************************************)
Bytes == 0..255

\* start times of a record: zero, an instant chrono represents, and two that
\* it does not (above i64::MAX, and beyond the last year of NaiveDateTime)
StartTimes ==
    { << 0, 0, 0, 0, 0, 0, 0, 0 >>, put_u64(1000),
      << 255, 0, 0, 0, 0, 0, 0, 0 >>, << 0, 0, 9, 0, 0, 0, 0, 0 >> }

\* records of 16, 17 and 18 bytes
EntryInputs ==
    { SubSeq(put_u32(id) \o << f >> \o t \o put_u32(d) \o << 1 >>, 1, n) :
        id \in {0, 7}, f \in Bytes, t \in StartTimes, d \in {0, 30}, n \in 16..18 }

\* bytes of a system state: those the tables of SyncState::from_data name,
\* their neighbours and two others
SyncBytes == { 0, 1, 2, 3, 4, 5, 6, 7, 9, 255 }

SyncStateInputs ==
    { << a, b, c, d >> : a, b, c, d \in SyncBytes }
    \cup { << >>, << 0, 0, 0 >>, << 2, 3, 0, 0, 7 >>, << 9, 9, 0, 0, 0 >> }

\* payloads of a notification: empty, every single byte, and longer ones
\* that are and are not UTF-8
Payloads ==
    { << >> } \cup { << b >> : b \in Bytes }
    \cup { << 72, 105 >>, << 195, 169 >>, << 195, 40 >>, << 3, 131 >>, << 226, 130, 172 >> }

CharacteristicIds ==
    { "battery_level", "event", "facet", "double_tap", "history", "command_result" }

EventInputs ==
    { CharacteristicValue(id, value) : id \in CharacteristicIds, value \in Payloads }
    \cup { CharacteristicOther(id) : id \in CharacteristicIds }
    \cup { DeviceConnected(id, connected) :
               id \in {"timeflip", "other_device"}, connected \in BOOLEAN }
    \cup { DeviceOther("timeflip"), DeviceOther("other_device"), AdapterEvent }

\* a side as a configuration file gives it; the facet is any index Facet's
\* deserializer lets through
NamedSide(facet) ==
    [ facet |-> facet, name |-> "named", color |-> << facet, 256, 2 >>,
      task |-> Pomodoro(60) ]

\* side lists: the short ones over five facets, and longer ones: all twelve
\* facets in descending order, eleven facets and one of them again, thirteen
\* sides over the twelve facets, thirteen different facets
SidesInputs ==
    { [k \in 1..Len(q) |-> NamedSide(q[k])] : q \in SeqsUpTo({ 0, 1, 2, 12, 13 }, MaxSides) }
    \cup { [k \in 1..12 |-> NamedSide(13 - k)],
           [k \in 1..12 |-> NamedSide(IF k = 12 THEN 1 ELSE k)],
           [k \in 1..13 |-> NamedSide(IF k = 13 THEN 1 ELSE k)],
           [k \in 1..13 |-> NamedSide(k - 1)] }

\* variant: every interval up to 60 seconds is accepted
BlinkInterval_new_from_zero(seconds) ==
    IF seconds <= 60 THEN Ok(seconds) ELSE Err([kind |-> "OutOfRange", arg |-> seconds])

\* BlinkInterval::new; a BlinkInterval is represented by the value seconds()
\* returns
BlinkInterval_new(seconds) ==
    IF 5 <= seconds /\ seconds <= 60 THEN Ok(seconds)
    ELSE Err([kind |-> "OutOfRange", arg |-> seconds])

\* the result of a read of the battery level characteristic, as
\* TimeFlip::battery_level turns it into its own result
Battery_level(read) ==
    IF ~read.ok THEN Err(BluetoothError)
    ELSE IF Len(read.data) = 0 THEN Err([kind |-> "ReadTooShort", arg |-> << 0, 1 >>])
    ELSE IF Percent_new(read.data[1]).tag = "Ok" THEN Percent_new(read.data[1])
    ELSE Err([kind |-> "InvalidBatteryLevel", arg |-> Percent_new(read.data[1]).err])

BatteryReads == [ ok : BOOLEAN, data : Payloads ]

\* the command TimeFlip::blink_interval sends for an interval that
\* BlinkInterval::new returned, nothing for one it rejected
BlinkIntervalCommand(seconds) ==
    IF BlinkInterval_new(seconds).tag = "Ok"
    THEN Ok(Command_to_vec(BlinkInterval(BlinkInterval_new(seconds).val)))
    ELSE BlinkInterval_new(seconds)

\* channels of a colour and seconds of a timer
Channels == { 0, 1, 258, 65535 }
Timers == { 0, 1, 1500, 16909060 }

\* timestamps of a NaiveDateTime: the epoch, instants after it, one before it
Timestamps == { -1, 0, 1000, 16909060 }

\* every variant of Command, with the values the constructors of types.rs
\* let through
CommandInputs ==
    { LockMode(on) : on \in BOOLEAN } \cup { PauseMode(on) : on \in BOOLEAN }
    \cup { AutoPauseTime(time) : time \in Channels }
    \cup { GetTime, ReadStatus }
    \cup { Time(time) : time \in Timestamps }
    \cup { Brightness(Percent_new(p).val) : p \in 0..100 }
    \cup { BlinkInterval(BlinkInterval_new(seconds).val) : seconds \in 5..60 }
    \cup { SetColor(f, << r, g, b >>) : f \in { 1, 12 }, r, g, b \in Channels }
    \cup { SetTaskParameter(f, Simple) : f \in 1..12 }
    \cup { SetTaskParameter(f, Pomodoro(timer)) : f \in 1..12, timer \in Timers }
    \cup { GetTaskParameter(f) : f \in 1..12 }

\* variant: a Simple task is encoded without the timer it does not use
ToVec_simple_without_timer(cmd) ==
    IF cmd.name = "Time" /\ cmd.time < 0 THEN [tag |-> "Panic"]
    ELSE IF cmd.name = "SetTaskParameter" /\ cmd.task.kind = "Simple"
    THEN Ok(<< Command_id(cmd), cmd.facet, 0 >>)
    ELSE Ok(Command_to_vec(cmd))

\* Command::to_vec, with the panic of
\* u64::try_from(time.timestamp()).expect("timestamp is positive")
ToVec(cmd) ==
    IF cmd.name = "Time" /\ cmd.time < 0 THEN [tag |-> "Panic"]
    ELSE Ok(Command_to_vec(cmd))

(***************************************************************************)
(* bin/timeflip.rs: the History command merges the entries read from the   *)
(* device into those of the update file.                                   *)
(***************************************************************************)
MaxStored == 3
MaxUpdate == 2

\* entries.sort_by(|a, b| a.id.cmp(&b.id)): a stable sort
RECURSIVE InsertById(_, _)
InsertById(sorted, entry) ==
    IF sorted = << >> THEN << entry >>
    ELSE IF sorted[Len(sorted)].id <= entry.id THEN Append(sorted, entry)
    ELSE Append(InsertById(SubSeq(sorted, 1, Len(sorted) - 1), entry), sorted[Len(sorted)])

RECURSIVE SortById(_)
SortById(list) ==
    IF list = << >> THEN << >>
    ELSE InsertById(SortById(SubSeq(list, 1, Len(list) - 1)), list[Len(list)])

\* entries.retain(|entry| !new_ids.contains(&entry.id))
RECURSIVE Retain(_, _)
Retain(list, new_ids) ==
    IF list = << >> THEN << >>
    ELSE IF Head(list).id \in new_ids THEN Retain(Tail(list), new_ids)
    ELSE << Head(list) >> \o Retain(Tail(list), new_ids)

\* variant: the stored entries are not filtered before the append
MergeHistory_append_only(stored, update) == SortById(stored) \o update

\* the entries of the file, sorted, without those whose id was read again,
\* followed by the entries read
MergeHistory(stored, update) ==
    Retain(SortById(stored), { update[k].id : k \in 1..Len(update) }) \o update

\* entries of the update file and entries read from the device: an id and a
\* duration that tells the stored from the fresh one
StoredEntries == [ id : 1..3, duration : { 10, 11 } ]
FreshEntries == [ id : 1..3, duration : { 20 } ]

MergeInputs ==
    [ stored : SeqsUpTo(StoredEntries, MaxStored), update : SeqsUpTo(FreshEntries, MaxUpdate) ]

\* data read from the command result characteristic: results of ReadStatus
\* with and without a leading id, of GetTime and of GetTaskParameter, with
\* right and wrong leading bytes, cut short and extended
ResultInputs ==
    { << a, b, c, d >> : a \in { 0, 1, 2, 7, 16, 20 }, b \in { 0, 1, 2, 16 }, c \in { 0, 1 }, d \in { 0, 30 } }
    \cup { SubSeq(<< 16, a, b, 0, 30 >>, 1, n) : a \in { 1, 2, 3 }, b \in { 1, 2, 3 }, n \in 3..5 }
    \cup { SubSeq(<< c >> \o t \o << 9 >>, 1, n) :
             c \in { 0, 7, 16, 20 }, t \in StartTimes, n \in 8..10 }
    \cup { SubSeq(<< c, f, task >> \o put_u32(timer) \o put_u32(7) \o << 9 >>, 1, n) :
             c \in { 0, 7, 16, 20 }, f \in { 0, 1, 12, 13 }, task \in { 0, 1, 2 },
             timer \in { 0, 1500 }, n \in 10..12 }
    \cup { << >> }

CommandResultTypes == { "()", "NaiveDateTime", "SystemStatus", "FacetSettings" }
\* config.sides[facet.index_zero()] and self.names[entry.facet.index_zero()]:
\* indexing a table of twelve elements panics out of bounds
Facet_name(facet) ==
    { IF o.tag = "Ok" /\ o.val < 12 THEN o ELSE [tag |-> "Panic"] : o \in Index_zero(facet) }

\* side lists of a configuration file in which every facet has a colour and a
\* task of its own
PairingInputs ==
    { [k \in 1..Len(q) |-> [NamedSide(q[k]) EXCEPT !.task = Pomodoro(60 * q[k])]] :
        q \in SeqsUpTo({ 0, 1, 2, 3, 12, 13 }, MaxSides) }

\* deserialize_sides: the sides of a deserialized Config are what
\* sides_from_vec returns, its error becomes the deserializer's error
Config_deserialize(sides) ==
    LET r == Sides_from_vec(sides)
    IN  IF r.tag = "Ok" THEN Ok([Config_custom EXCEPT !.sides = r.val]) ELSE r

\* the per-facet commands of sync's FacetColor and TaskParameters arms and of
\* write_config, by position i of config.sides.iter().enumerate()
PerFacetCommands(cfg) ==
    [ i \in 0..(Len(cfg.sides) - 1) |->
        [ sync_color |-> SyncCommand("FacetColor", i, cfg, 0),
          sync_task |-> SyncCommand("TaskParameters", i, cfg, 0),
          write_color |-> WriteConfigCommand(cfg, 3 + 2 * i),
          write_task |-> WriteConfigCommand(cfg, 4 + 2 * i) ] ]

\* the facets the decoders hand out for the inputs above: of decoded history
\* entries, of decoded facet and double tap events, of the sides of
\* deserialized configurations
ObtainedFacets ==
    { [origin |-> "Entry::from_data", facet |-> Entry_from_data(d).val.facet] :
        d \in { e \in EntryInputs : Entry_from_data(e).tag = "Ok" } }
    \cup { [origin |-> "Event::from_bluetooth_event",
            facet |-> Event_from_bluetooth_event(b, Handles).val.facet] :
              b \in { e \in EventInputs :
                        /\ Event_from_bluetooth_event(e, Handles).tag = "Ok"
                        /\ Event_from_bluetooth_event(e, Handles).val.kind
                               \in { "Facet", "DoubleTap" } } }
    \cup UNION { { [origin |-> "Config", facet |-> Config_deserialize(x).val.sides[j].facet] :
                    j \in 1..12 } :
                  x \in { y \in PairingInputs : Config_deserialize(y).tag = "Ok" } }

InitApply ==
    /\ InitSyncIdle
    /\ InitCommandIdle
    /\ InitHistoryIdle
    /\ InitEventStreamIdle
    /\ fn_out = NoRet
    /\ \/ fn_name = "Entry::from_data" /\ fn_in \in EntryInputs
       \/ fn_name = "SyncState::from_data" /\ fn_in \in SyncStateInputs
       \/ fn_name = "Event::from_bluetooth_event" /\ fn_in \in EventInputs
       \/ fn_name = "sides_from_vec" /\ fn_in \in SidesInputs
       \/ fn_name = "Facet::new" /\ fn_in \in 0..MaxIndex
       \/ fn_name \in CommandResultTypes /\ fn_in \in ResultInputs
       \/ fn_name = "Command::to_vec" /\ fn_in \in CommandInputs
       \/ fn_name \in { "Percent::new", "BlinkInterval::new", "Command::BlinkInterval" }
          /\ fn_in \in 0..MaxIndex
       \/ fn_name = "battery_level" /\ fn_in \in BatteryReads
       \/ fn_name = "History" /\ fn_in \in MergeInputs
       \/ fn_name = "Config" /\ fn_in \in PairingInputs
       \/ fn_name = "facet_name" /\ fn_in \in ObtainedFacets

Apply(name, result) ==
    /\ fn_name = name
    /\ fn_out = NoRet
    /\ fn_out' = result
    /\ UNCHANGED << fn_name, fn_in, syncVars, cmdVars, devVars, histVars, eventVars, wcVars, connVars, rhVars, tkVars >>

ApplyEntryFromData == Apply("Entry::from_data", Entry_from_data(fn_in))

ApplyFacetNew == Apply("Facet::new", Facet_new(fn_in))

ApplySyncStateFromData == Apply("SyncState::from_data", SyncState_from_data(fn_in))

ApplyEventFromBluetoothEvent ==
    Apply("Event::from_bluetooth_event", Event_from_bluetooth_event(fn_in, Handles))

ApplySidesFromVec == Apply("sides_from_vec", Sides_from_vec(fn_in))

ApplyUnitFromData == Apply("()", Unit_from_data(fn_in))

ApplyNaiveDateTimeFromData == Apply("NaiveDateTime", NaiveDateTime_from_data(fn_in))

ApplySystemStatusFromData == Apply("SystemStatus", SystemStatus_from_data(fn_in))

ApplyFacetSettingsFromData == Apply("FacetSettings", FacetSettings_from_data(fn_in))

ApplyCommandToVec == Apply("Command::to_vec", ToVec(fn_in))

ApplyPercentNew == Apply("Percent::new", Percent_new(fn_in))

ApplyBlinkIntervalNew == Apply("BlinkInterval::new", BlinkInterval_new(fn_in))

ApplyBatteryLevel == Apply("battery_level", Battery_level(fn_in))

ApplyBlinkIntervalCommand == Apply("Command::BlinkInterval", BlinkIntervalCommand(fn_in))

ApplyMergeHistory == Apply("History", Ok(MergeHistory(fn_in.stored, fn_in.update)))

ApplyFacetName ==
    /\ fn_name = "facet_name"
    /\ \E o \in Facet_name(fn_in.facet) : Apply("facet_name", o)

ApplyPerFacetCommands ==
    Apply("Config",
          LET c == Config_deserialize(fn_in)
          IN  IF c.tag = "Ok"
              THEN Ok([config |-> c.val, commands |-> PerFacetCommands(c.val)])
              ELSE c)

NextApply ==
    \/ ApplyFacetName
    \/ ApplyPerFacetCommands
    \/ ApplyMergeHistory
    \/ ApplyBlinkIntervalCommand
    \/ ApplyCommandToVec
    \/ ApplyPercentNew
    \/ ApplyBlinkIntervalNew
    \/ ApplyBatteryLevel
    \/ ApplyUnitFromData
    \/ ApplyNaiveDateTimeFromData
    \/ ApplySystemStatusFromData
    \/ ApplyFacetSettingsFromData
    \/ ApplyEntryFromData
    \/ ApplyFacetNew
    \/ ApplySyncStateFromData
    \/ ApplyEventFromBluetoothEvent
    \/ ApplySidesFromVec

SpecApply == InitApply /\ [][NextApply]_vars

Applied(name) == fn_name = name /\ fn_out # NoRet

IsErrKind(r, kind) == r.tag = "Err" /\ r.err.kind = kind

AllZero(data) == \A k \in 1..17 : data[k] = 0

\* C13: Entry::from_data gives TooShort for fewer than 17 bytes; otherwise
\* EndOfHistory, and no Entry, when id, facet byte, start time and duration
\* are all zero; otherwise neither of the two, and an Entry it produces
\* carries the id, start time and duration of the record, pause = TRUE and
\* facet = byte - 128 for a facet byte of 128 or more, pause = FALSE and
\* facet = byte below that.  The record id 7, facet byte 140, time 1000,
\* duration 30 decodes to Entry{7, 12, TRUE, 1000, 30}, and a record with
\* facet byte 128 and the other fields zero is not the sentinel.
C13_EntryRules ==
    Applied("Entry::from_data") =>
        /\ Len(fn_in) < 17 <=> IsErrKind(fn_out, "TooShort")
        /\ (Len(fn_in) >= 17 /\ AllZero(fn_in)) <=> IsErrKind(fn_out, "EndOfHistory")
        /\ fn_out.tag = "Ok" =>
              /\ fn_out.val.id = get_u32(fn_in, 1)
              /\ fn_out.val.pause = (fn_in[5] >= 128)
              /\ fn_out.val.facet = IF fn_in[5] >= 128 THEN fn_in[5] - 128 ELSE fn_in[5]
              /\ fn_out.val.time = Timestamp(SubSeq(fn_in, 6, 13))
              /\ fn_out.val.duration = get_u32(fn_in, 14)
        /\ fn_in = Record(7, 140, 1000, 30) =>
              fn_out = Ok([ id |-> 7, facet |-> 12, pause |-> TRUE,
                            time |-> << 0, 0, 0, 1000 >>, duration |-> 30 ])
        /\ fn_in = Record(0, 128, 0, 0) => ~IsErrKind(fn_out, "EndOfHistory")

C13_Witness ==
    /\ Applied("Entry::from_data")
    /\ fn_in = Record(7, 140, 1000, 30)
    /\ fn_out.tag = "Ok" /\ fn_out.val.facet = 12 /\ fn_out.val.pause

\* C14: for a record of at least 17 bytes that is not the sentinel and whose
\* facet index, the facet byte without the pause bit, is outside 1..12,
\* Entry::from_data returns InvalidFacet and no Entry.
C14_InvalidFacetRejected ==
    ( /\ Applied("Entry::from_data")
      /\ Len(fn_in) >= 17 /\ ~AllZero(fn_in)
      /\ FacetIndex(fn_in[5]) \notin 1..12 )
        => IsErrKind(fn_out, "InvalidFacet")

\* C15: Facet::new returns, for an index in 1..12, a Facet of that index, and
\* for 0 and every index in 13..255 InvalidIndex carrying the index, so that
\* the index of every Facet constructed is within 1..12.
C15_FacetRange ==
    (Applied("Facet::new") /\ fn_in <= 255) =>
        /\ fn_in \in 1..12 => fn_out = Ok(fn_in)
        /\ fn_in \notin 1..12 => fn_out = Err([kind |-> "InvalidIndex", arg |-> fn_in])
        /\ fn_out.tag = "Ok" => fn_out.val \in 1..12

\* the tables of the claim
SyncTypeOf(pair) ==
    CASE pair = << 0, 0 >> -> "Synchronized"
      [] pair = << 1, 0 >> -> "FactoryReset"
      [] pair = << 2, 1 >> -> "Time"
      [] pair = << 2, 2 >> -> "FacetColor"
      [] pair = << 2, 3 >> -> "LedBrightness"
      [] pair = << 2, 4 >> -> "BlinkInterval"
      [] pair = << 2, 5 >> -> "TaskParameters"
      [] pair = << 2, 6 >> -> "AutoPause"
      [] OTHER -> "none"

HardwareErrorOf(pair) ==
    CASE pair = << 0, 0 >> -> << FALSE, FALSE >>
      [] pair = << 2, 1 >> -> << TRUE, FALSE >>
      [] pair = << 2, 2 >> -> << FALSE, TRUE >>
      [] pair = << 2, 3 >> -> << TRUE, TRUE >>
      [] OTHER -> << >>

SyncStateOf(sync, accelerometer, flash) ==
    Ok([sync |-> sync, accelerometer_error |-> accelerometer, flash_error |-> flash])

\* C16: SyncState::from_data on at least four bytes decodes bytes 0..2 by
\* the table of the eight directives and bytes 2..4 by the table of the four
\* flag pairs, and fails for every other pair in either place: [0,0,0,0] is
\* Synchronized without error, [2,3,0,0] LedBrightness without error,
\* [0,0,2,3] Synchronized with both flags, and [9,9,0,0] fails.
C16_SyncStateTable ==
    (Applied("SyncState::from_data") /\ Len(fn_in) >= 4) =>
        LET sync == SyncTypeOf(<< fn_in[1], fn_in[2] >>)
            hw == HardwareErrorOf(<< fn_in[3], fn_in[4] >>)
        IN  /\ (sync # "none" /\ hw # << >>) => fn_out = SyncStateOf(sync, hw[1], hw[2])
            /\ (sync = "none" \/ hw = << >>) => fn_out.tag = "Err"
            /\ fn_in = << 0, 0, 0, 0 >> => fn_out = SyncStateOf("Synchronized", FALSE, FALSE)
            /\ fn_in = << 2, 3, 0, 0 >> => fn_out = SyncStateOf("LedBrightness", FALSE, FALSE)
            /\ fn_in = << 0, 0, 2, 3 >> => fn_out = SyncStateOf("Synchronized", TRUE, TRUE)
            /\ fn_in = << 9, 9, 0, 0 >> => fn_out.tag = "Err"

C16_Witness ==
    /\ Applied("SyncState::from_data")
    /\ fn_in = << 0, 0, 2, 3 >>
    /\ fn_out = SyncStateOf("Synchronized", TRUE, TRUE)

ValueChange(id) ==
    /\ Applied("Event::from_bluetooth_event")
    /\ fn_in.kind = "Characteristic" /\ fn_in.event = "Value"
    /\ fn_in.id = id

\* the routing of a value change by its characteristic id, the range of the
\* facet of a facet notification left aside
ValueRouted ==
    /\ ValueChange("battery_level") =>
          IF fn_in.value = << >> THEN IsErrKind(fn_out, "TooShort")
          ELSE IF fn_in.value[1] <= 100 THEN fn_out = Ok(BatteryLevelEvent(fn_in.value[1]))
          ELSE fn_out.tag = "Err"
    /\ ValueChange("event") =>
          /\ fn_out.tag = "Ok" => fn_out.val = EventEvent(fn_in.value)
          /\ fn_out.tag = "Err" => IsErrKind(fn_out, "Event")
          /\ fn_in.value \in { << >>, << 72, 105 >>, << 195, 169 >>, << 226, 130, 172 >> }
                => fn_out.tag = "Ok"
          /\ fn_in.value \in { << 195, 40 >>, << 128 >>, << 255 >>, << 195 >> }
                => fn_out.tag = "Err"
    /\ ValueChange("facet") =>
          IF fn_in.value = << >> THEN IsErrKind(fn_out, "TooShort")
          ELSE fn_in.value[1] \in 1..12 => fn_out = Ok(FacetEvent(fn_in.value[1]))
    /\ ValueChange("double_tap") =>
          /\ fn_in.value = << >> => IsErrKind(fn_out, "TooShort")
          /\ fn_in.value = << 131 >> => fn_out = Ok(DoubleTap(3, TRUE))
          /\ fn_in.value = << 3 >> => fn_out = Ok(DoubleTap(3, FALSE))
          /\ (fn_in.value # << >> /\ fn_out.tag = "Ok") =>
                /\ fn_out.val.kind = "DoubleTap"
                /\ fn_out.val.pause = (fn_in.value[1] >= 128)
                /\ fn_out.val.facet = FacetIndex(fn_in.value[1])
    /\ \A id \in CharacteristicIds \ { "battery_level", "event", "facet", "double_tap" } :
          ValueChange(id) => IsErrKind(fn_out, "UnexpectedCharacteristic")

\* C17: Event::from_bluetooth_event routes a value change by its
\* characteristic id: battery level to BatteryLevel of the first byte within
\* 0..100, last event to Event of the UTF-8 text, facet to Facet of the first
\* byte, which must be a facet index 1..12, double tap to DoubleTap with the
\* pause bit split (131 is facet 3 paused, 3 is facet 3 not paused); any
\* other id is UnexpectedCharacteristic, and an empty payload of battery
\* level, facet or double tap is TooShort.
C17_ValueRouting ==
    /\ ValueRouted
    /\ (ValueChange("facet") /\ fn_in.value # << >> /\ fn_in.value[1] \notin 1..12)
          => fn_out.tag = "Err"

\* C18: for a connectivity event Event::from_bluetooth_event returns
\* Ok(Disconnected) exactly when the device is the tracked one and connected
\* is FALSE, IgnoreConnected for the tracked device with connected TRUE, and
\* UnexpectedDevice for every other device whatever the flag; every event
\* that is neither a value change nor a connectivity event gives
\* UnexpectedEvent.
C18_Connectivity ==
    Applied("Event::from_bluetooth_event") =>
        /\ (fn_in.kind = "Device" /\ fn_in.event = "Connected") =>
              /\ fn_out = Ok(Disconnected)
                    <=> (fn_in.id = Handles.device_id /\ ~fn_in.connected)
              /\ IsErrKind(fn_out, "IgnoreConnected")
                    <=> (fn_in.id = Handles.device_id /\ fn_in.connected)
              /\ IsErrKind(fn_out, "UnexpectedDevice") <=> fn_in.id # Handles.device_id
        /\ fn_in.event = "Other" => IsErrKind(fn_out, "UnexpectedEvent")
        /\ (fn_out.tag = "Ok" /\ fn_out.val = Disconnected) =>
              fn_in = DeviceConnected(Handles.device_id, FALSE)

C18_Witness ==
    /\ Applied("Event::from_bluetooth_event")
    /\ fn_in = DeviceConnected("timeflip", TRUE)
    /\ IsErrKind(fn_out, "IgnoreConnected")

(***************************************************************************)
(* TimeFlip::event_stream                                                  *)
(***************************************************************************)
\* events the device event stream can carry, by name
DeviceStreamEvent(name) ==
    CASE name = "battery50" -> CharacteristicValue("battery_level", << 50 >>)
      [] name = "battery200" -> CharacteristicValue("battery_level", << 200 >>)
      [] name = "facet3" -> CharacteristicValue("facet", << 3 >>)
      [] name = "tap131" -> CharacteristicValue("double_tap", << 131 >>)
      [] name = "history" -> CharacteristicValue("history", Record(5, 1, 1000, 30))
      [] name = "connected" -> DeviceConnected("timeflip", TRUE)
      [] name = "disconnected" -> DeviceConnected("timeflip", FALSE)
      [] name = "adapter" -> AdapterEvent

DeviceStreamNames ==
    { "battery50", "battery200", "facet3", "tap131", "history", "connected",
      "disconnected", "adapter" }

\* variant: a decode error is yielded too
Yield_errors_too(out, res) == Append(out, IF res.tag = "Ok" THEN res.val ELSE res.err)

\* filter_map(|res| match res { Ok(event) => Some(event), Err(e) => None })
Yield(out, res) == IF res.tag = "Ok" THEN Append(out, res.val) ELSE out

\* variant: the stream stops at the first item that does not decode
AfterItem_until_error(res) == IF res.tag = "Ok" THEN "streaming" ELSE "ended"

\* map and filter_map hand on the end of the device event stream only
AfterItem(res) == "streaming"

\* event_stream(): handles, self.session.device_event_stream(device.id).await?
EventStreamOpen(ok) ==
    /\ es_pc = "open"
    /\ IF ok
       THEN es_pc' = "streaming" /\ es_ret' = Ok("stream")
       ELSE es_pc' = "failed" /\ es_ret' = Err(BluetoothError)
    /\ UNCHANGED << es_in, es_ends, es_taken, es_out, last_subscribe >>
    /\ UNCHANGED << syncVars, cmdVars, devVars, histVars, fnVars, wcVars, connVars, rhVars, tkVars >>

\* the returned stream takes the next event of the device event stream, maps
\* it by Event::from_bluetooth_event and filters it
EventStreamItem ==
    /\ es_pc = "streaming"
    /\ es_taken < Len(es_in)
    /\ LET res == Event_from_bluetooth_event(DeviceStreamEvent(es_in[es_taken + 1]), Handles)
       IN  /\ es_out' = Yield(es_out, res)
           /\ es_pc' = AfterItem(res)
    /\ es_taken' = es_taken + 1
    /\ UNCHANGED << es_ret, es_in, es_ends, last_subscribe >>
    /\ UNCHANGED << syncVars, cmdVars, devVars, histVars, fnVars, wcVars, connVars, rhVars, tkVars >>

\* the device event stream has ended: so does the returned stream
EventStreamEnd ==
    /\ es_pc = "streaming"
    /\ es_taken = Len(es_in)
    /\ es_ends
    /\ es_pc' = "ended"
    /\ UNCHANGED << es_ret, es_in, es_ends, es_taken, es_out, last_subscribe >>
    /\ UNCHANGED << syncVars, cmdVars, devVars, histVars, fnVars, wcVars, connVars, rhVars, tkVars >>

InitEventStream ==
    /\ InitSyncIdle
    /\ InitCommandIdle
    /\ InitHistoryIdle
    /\ fn_name = "none" /\ fn_in = << >> /\ fn_out = NoRet
    /\ InitWriteConfigIdle
    /\ es_pc = "open"
    /\ es_ret = NoRet
    /\ es_in \in SeqsUpTo(DeviceStreamNames, MaxEvents)
    /\ es_ends \in BOOLEAN
    /\ es_taken = 0
    /\ es_out = << >>
    /\ last_subscribe = << >>

NextEventStream ==
    \/ \E ok \in BOOLEAN : EventStreamOpen(ok)
    \/ EventStreamItem
    \/ EventStreamEnd

SpecEventStream == InitEventStream /\ [][NextEventStream]_vars

\* what the claims expect of an event of the device event stream: the Event
\* it stands for, or nothing
ExpectedEvent(name) ==
    CASE name = "battery50" -> << BatteryLevelEvent(50) >>
      [] name = "facet3" -> << FacetEvent(3) >>
      [] name = "tap131" -> << DoubleTap(3, TRUE) >>
      [] name = "disconnected" -> << Disconnected >>
      [] OTHER -> << >>

RECURSIVE ExpectedEvents(_)
ExpectedEvents(n) ==
    IF n = 0 THEN << >> ELSE ExpectedEvents(n - 1) \o ExpectedEvent(es_in[n])

\* C19: what the stream of event_stream has yielded is the sequence of the
\* Events of those items taken from the device event stream that decode, in
\* the order of delivery, one Event per item; items that do not decode and
\* the connected notification yield nothing, an error least of all.
C19_DecodableSubsequence ==
    /\ es_out = ExpectedEvents(es_taken)
    /\ \A k \in 1..Len(es_out) :
          es_out[k].kind \in { "Disconnected", "BatteryLevel", "Event", "Facet", "DoubleTap" }

C19_Witness ==
    /\ SubSeq(es_in, 1, es_taken) = << "facet3", "connected", "battery200", "battery50" >>
    /\ es_out = << FacetEvent(3), BatteryLevelEvent(50) >>

\* C20: the stream of event_stream ends only when the device event stream
\* has ended, with every item taken and every decodable one yielded; until
\* then, whatever the last item was (malformed, unrelated, Disconnected),
\* the next item can be taken.
C20_EndsWithTransport ==
    /\ es_pc = "ended" =>
          /\ es_ends
          /\ es_taken = Len(es_in)
          /\ es_out = ExpectedEvents(Len(es_in))
    /\ (es_ret.tag = "Ok" /\ es_taken < Len(es_in)) => ENABLED EventStreamItem
    /\ (es_ret.tag = "Ok" /\ es_taken = Len(es_in) /\ ~es_ends) => es_pc = "streaming"

C20_Witness ==
    /\ es_in = << "battery200", "disconnected", "history", "tap131" >>
    /\ es_pc = "ended"
    /\ es_out = << Disconnected, DoubleTap(3, TRUE) >>

(***************************************************************************)
(* TimeFlip::subscribe_battery_level, subscribe_events, subscribe_facet,   *)
(* subscribe_double_tap, beside a running event_stream                     *)
(***************************************************************************)
SubscribeFunctions ==
    { "subscribe_battery_level", "subscribe_events", "subscribe_facet",
      "subscribe_double_tap" }

\* variant: subscribe_double_tap starts the notifications of the facet
SubscribedCharacteristic_facet_twice(fn) ==
    CASE fn = "subscribe_battery_level" -> Handles.battery_level
      [] fn = "subscribe_events" -> Handles.last_event
      [] fn = "subscribe_facet" -> Handles.facet
      [] fn = "subscribe_double_tap" -> Handles.facet

\* the characteristic whose id each subscribe_* hands to start_notify
SubscribedCharacteristic(fn) ==
    CASE fn = "subscribe_battery_level" -> Handles.battery_level
      [] fn = "subscribe_events" -> Handles.last_event
      [] fn = "subscribe_facet" -> Handles.facet
      [] fn = "subscribe_double_tap" -> Handles.double_tap

\* self.session.start_notify(id).await.map_err(Into::into)
Subscribe(fn, ok) ==
    /\ last_subscribe' = << fn, ok >>
    /\ notifying' = IF ok THEN notifying \cup { SubscribedCharacteristic(fn) } ELSE notifying
    /\ UNCHANGED << es_pc, es_ret, es_in, es_ends, es_taken, es_out >>
    /\ UNCHANGED << hist_pc, since_id, entries, hist_ret, stream, stream_ends, consumed,
                    stop_calls, dev_history, hist_calls >>
    /\ UNCHANGED << syncVars, cmdVars, devVars, fnVars, wcVars, connVars, rhVars, tkVars >>

InitSubscribe ==
    /\ InitSyncIdle
    /\ InitCommandIdle
    /\ InitHistoryIdle
    /\ fn_name = "none" /\ fn_in = << >> /\ fn_out = NoRet
    /\ InitWriteConfigIdle
    /\ es_pc \in { "idle", "open" }
    /\ es_ret = NoRet
    /\ es_in \in SeqsUpTo({ "facet3", "connected" }, MaxEvents)
    /\ es_ends \in BOOLEAN
    /\ es_taken = 0
    /\ es_out = << >>
    /\ last_subscribe = << >>

NextSubscribe ==
    \/ \E fn \in SubscribeFunctions, ok \in BOOLEAN : Subscribe(fn, ok)
    \/ \E ok \in BOOLEAN : EventStreamOpen(ok)
    \/ EventStreamItem
    \/ EventStreamEnd

SpecSubscribe == InitSubscribe /\ [][NextSubscribe]_vars

FacetsOf(sides) == { sides[k].facet : k \in 1..Len(sides) }

NamesTwice(sides) == \E j, k \in 1..Len(sides) : j # k /\ sides[j].facet = sides[k].facet

\* C22: sides_from_vec fails or returns twelve sides, the side of facet i + 1
\* at position i (counted from 0), so with pairwise different facets; the
\* sides of the input are in the result unchanged, and a facet the input does
\* not name has the default side (no name, black, Simple).  Up to twelve
\* sides that name a facet twice fail with Duplicates, more than twelve sides
\* fail with TooMany, and the sides of Config::default are those of the empty
\* list.
C22_SidesFromVec ==
    /\ Sides_from_vec(<< >>) = Ok(Config_default.sides)
    /\ Applied("sides_from_vec") =>
        /\ fn_out.tag = "Ok" =>
              /\ Len(fn_out.val) = 12
              /\ \A i \in 1..12 :
                    /\ fn_out.val[i].facet = i
                    /\ i \notin FacetsOf(fn_in) =>
                          fn_out.val[i] = [ facet |-> i, name |-> "None",
                                            color |-> << 0, 0, 0 >>, task |-> Simple ]
              /\ \A k \in 1..Len(fn_in) : fn_out.val[fn_in[k].facet] = fn_in[k]
        /\ Len(fn_in) > 12 => fn_out = Err([kind |-> "TooMany", arg |-> Len(fn_in)])
        /\ (Len(fn_in) <= 12 /\ NamesTwice(fn_in)) => fn_out = Err([kind |-> "Duplicates"])
        /\ (Len(fn_in) <= 12 /\ ~NamesTwice(fn_in) /\ FacetsOf(fn_in) \subseteq 1..12)
              => fn_out.tag = "Ok"

C22_Witness ==
    /\ Applied("sides_from_vec")
    /\ fn_in = << NamedSide(2), NamedSide(1) >>
    /\ fn_out.tag = "Ok"
    /\ fn_out.val[1] = NamedSide(1) /\ fn_out.val[2] = NamedSide(2)
    /\ fn_out.val[3].name = "None"

(***************************************************************************)
(* TimeFlip::write_config                                                  *)
(***************************************************************************)
\* number of commands of a complete write_config
WriteConfigSteps(cfg) == 3 + 2 * Len(cfg.sides)

\* write_config runs on the caller c1
WriteConfigIssue(step) ==
    LET c == WriteConfigCommand(wc_config, step)
    IN  IF c.tag = "Ok"
        THEN /\ Invoke("c1", c.val)
             /\ wc_step' = step
             /\ wc_pc' = "call"
             /\ UNCHANGED wc_ret
        ELSE /\ wc_pc' = "returned"
             /\ wc_ret' = c
             /\ UNCHANGED << wc_step, cmdVars >>

\* entry: self.brightness(config.brightness), up to its first transport call
WriteConfigStart ==
    /\ wc_pc = "start"
    /\ WriteConfigIssue(0)
    /\ UNCHANGED << wc_config, wc_log >>
    /\ UNCHANGED << syncVars, devVars, histVars, fnVars, eventVars, connVars, rhVars, tkVars >>

\* self.command returned: `?`, the next command, or Ok(())
WriteConfigContinue ==
    /\ wc_pc = "call"
    /\ pc["c1"] = "done"
    /\ wc_log' = Append(wc_log, [ command |-> command["c1"], calls |-> calls["c1"],
                                  ret |-> ret["c1"] ])
    /\ IF ret["c1"].tag # "Ok"
       THEN /\ wc_pc' = "returned"
            /\ wc_ret' = ret["c1"]
            /\ UNCHANGED << wc_step, cmdVars >>
       ELSE IF wc_step + 1 < WriteConfigSteps(wc_config)
       THEN WriteConfigIssue(wc_step + 1)
       ELSE /\ wc_pc' = "returned"
            /\ wc_ret' = Ok(Unit)
            /\ Leave("c1")
            /\ UNCHANGED wc_step
    /\ UNCHANGED wc_config
    /\ UNCHANGED << syncVars, devVars, histVars, fnVars, eventVars, connVars, rhVars, tkVars >>

InitWriteConfig ==
    /\ InitSyncIdle
    /\ InitCommandIdle
    /\ InitHistoryIdle
    /\ fn_name = "none" /\ fn_in = << >> /\ fn_out = NoRet
    /\ es_pc = "idle" /\ es_ret = NoRet /\ es_in = << >> /\ es_ends = FALSE
    /\ es_taken = 0 /\ es_out = << >> /\ last_subscribe = << >>
    /\ InitConnectIdle
    /\ InitReadHistoryEntryIdle
    /\ InitTimekeeperIdle
    /\ wc_pc = "start"
    /\ wc_config \in Configs
    /\ wc_step = 0
    /\ wc_log = << >>
    /\ wc_ret = NoRet

NextWriteConfig ==
    \/ WriteConfigStart
    \/ WriteConfigContinue
    \/ \E ok \in BOOLEAN, reply \in Replies("c1") \cup { << >> } : CommandWrite("c1", ok, reply)
    \/ \E ok \in BOOLEAN : CommandReadEcho("c1", ok)
    \/ \E ok \in BOOLEAN : CommandReadResult("c1", ok)

SpecWriteConfig == InitWriteConfig /\ [][NextWriteConfig]_vars

\* the command the claim expects at position k, counted from 1: its name and,
\* for the commands of a side, its facet
ExpectedWrite(k) ==
    CASE k = 1 -> << "Brightness", 0 >>
      [] k = 2 -> << "BlinkInterval", 0 >>
      [] k = 3 -> << "AutoPauseTime", 0 >>
      [] OTHER -> << IF k % 2 = 0 THEN "SetColor" ELSE "SetTaskParameter", (k - 2) \div 2 >>

CommandCalls ==
    { << "write", "command" >>, << "read", "command" >>, << "read", "command_result" >>,
      << "from_data", "T" >> }

\* C23: write_config reads no status and makes no transport call outside its
\* commands; the commands it has issued are, in order, Brightness,
\* BlinkInterval, AutoPauseTime and then for the facets 1..12 ascending
\* SetColor followed by SetTaskParameter, with the values of the config; it
\* returns Ok after exactly 27 commands, all succeeded, and at the first
\* command that fails it returns that command's error.
C23_WriteConfigOrder ==
    /\ nreads = 0 /\ sync_state = NoRet
    /\ \A k \in 1..Len(wc_log) :
          /\ wc_log[k].command.name = ExpectedWrite(k)[1]
          /\ k > 3 => wc_log[k].command.facet = ExpectedWrite(k)[2]
          /\ wc_log[k].command = WriteConfigCommand(wc_config, k - 1).val
          /\ \A j \in 1..Len(wc_log[k].calls) : wc_log[k].calls[j] \in CommandCalls
          /\ wc_log[k].calls[1] = << "write", "command" >>
          /\ wc_log[k].ret.tag # "Ok" =>
                k = Len(wc_log) /\ wc_pc = "returned" /\ wc_ret = wc_log[k].ret
    /\ wc_log # << >> =>
          /\ wc_log[1].command.value = wc_config.brightness
          /\ Len(wc_log) >= 5 =>
                /\ wc_log[4].command.color = wc_config.sides[1].color
                /\ wc_log[5].command.task = wc_config.sides[1].task
    /\ Len(wc_log) <= 27
    /\ wc_ret.tag = "Ok" =>
          Len(wc_log) = 27 /\ \A k \in 1..27 : wc_log[k].ret.tag = "Ok"
    /\ (wc_pc = "returned" /\ wc_ret.tag # "Ok") =>
          wc_log # << >> /\ wc_ret = wc_log[Len(wc_log)].ret

C23_Witness ==
    /\ wc_pc = "returned" /\ wc_ret = Ok(Unit)
    /\ Len(wc_log) = 27
    /\ wc_config = Config_custom
    /\ wc_log[26].command = SetColor(12, Config_custom.sides[12].color)
    /\ wc_log[27].command = SetTaskParameter(12, Config_custom.sides[12].task)

(***************************************************************************)
(* TimeFlip::connect: discovery, selection, connection, the nine           *)
(* characteristic handles and the password.                                *)
(***************************************************************************)
MaxDevices == 2

\* a discovered device: whether it advertises the TimeFlip service, and its
\* paired and connected flags
Devices == [ timeflip : BOOLEAN, paired : BOOLEAN, connected : BOOLEAN ]

\* the order of the get_info calls in the CharacteristicHandles literal
CharacteristicOrder ==
    << "battery_level", "event", "facet", "command_result", "command",
       "double_tap", "system_state", "password", "history" >>

\* password.unwrap_or([0x30; 6]), with the default replaced by six zero bytes
Password_or_zeroes(password) ==
    IF password = "None" THEN << 0, 0, 0, 0, 0, 0 >> ELSE password

\* password.unwrap_or([0x30; 6])
Password_or_default(password) ==
    IF password = "None" THEN << 48, 48, 48, 48, 48, 48 >> ELSE password

\* .into_iter().find(|dev| dev.services.iter().any(..)): index of the first
\* device advertising the service, 0 when there is none
FindTimeFlip(devices) ==
    IF \E k \in 1..Len(devices) : devices[k].timeflip
    THEN CHOOSE k \in 1..Len(devices) :
            devices[k].timeflip /\ \A j \in 1..(k - 1) : ~devices[j].timeflip
    ELSE 0

NoDevice == [kind |-> "NoDevice"]

ConnectReturn(r) ==
    /\ cn_pc' = "returned"
    /\ cn_ret' = r

\* session.get_devices().await? and the selection of the device
ConnectGetDevices(ok) ==
    /\ cn_pc = "get_devices"
    /\ cn_calls' = Append(cn_calls, << "get_devices" >>)
    /\ IF ~ok THEN ConnectReturn(Err(BluetoothError)) /\ UNCHANGED cn_device
       ELSE IF FindTimeFlip(cn_devices) = 0
       THEN ConnectReturn(Err(NoDevice)) /\ UNCHANGED cn_device
       ELSE /\ cn_device' = FindTimeFlip(cn_devices)
            /\ cn_pc' = "connect"
            /\ UNCHANGED cn_ret
    /\ UNCHANGED << cn_devices, cn_password, cn_handles >>
    /\ UNCHANGED << syncVars, cmdVars, devVars, histVars, fnVars, eventVars, wcVars, rhVars, tkVars >>

\* if device.connected { } else { session.connect(&device.id).await?; }
ConnectDevice(ok) ==
    /\ cn_pc = "connect"
    /\ IF cn_devices[cn_device].connected
       THEN /\ ok
            /\ cn_pc' = "get_info"
            /\ UNCHANGED << cn_calls, cn_ret >>
       ELSE /\ cn_calls' = Append(cn_calls, << "connect", cn_device >>)
            /\ IF ok THEN cn_pc' = "get_info" /\ UNCHANGED cn_ret
               ELSE ConnectReturn(Err(BluetoothError))
    /\ UNCHANGED << cn_devices, cn_password, cn_device, cn_handles >>
    /\ UNCHANGED << syncVars, cmdVars, devVars, histVars, fnVars, eventVars, wcVars, rhVars, tkVars >>

\* <characteristic>.get_info(session, &id).await?, one per field of the handles
ConnectGetInfo(ok) ==
    /\ cn_pc = "get_info"
    /\ LET name == CharacteristicOrder[Len(cn_handles) + 1]
       IN  /\ cn_calls' = Append(cn_calls, << "get_info", name >>)
           /\ IF ok
              THEN /\ cn_handles' = Append(cn_handles, name)
                   /\ cn_pc' = IF Len(cn_handles) + 1 = Len(CharacteristicOrder)
                               THEN "write_password" ELSE "get_info"
                   /\ UNCHANGED cn_ret
              ELSE ConnectReturn(Err(BluetoothError)) /\ UNCHANGED cn_handles
    /\ UNCHANGED << cn_devices, cn_password, cn_device >>
    /\ UNCHANGED << syncVars, cmdVars, devVars, histVars, fnVars, eventVars, wcVars, rhVars, tkVars >>

\* timeflip.write_password().await?; Ok(timeflip)
ConnectWritePassword(ok) ==
    /\ cn_pc = "write_password"
    /\ cn_calls' = Append(cn_calls, << "write", "password", Password_or_default(cn_password) >>)
    /\ IF ok
       THEN ConnectReturn(Ok([ device |-> cn_device, characteristics |-> cn_handles,
                               password |-> Password_or_default(cn_password) ]))
       ELSE ConnectReturn(Err(BluetoothError))
    /\ UNCHANGED << cn_devices, cn_password, cn_device, cn_handles >>
    /\ UNCHANGED << syncVars, cmdVars, devVars, histVars, fnVars, eventVars, wcVars, rhVars, tkVars >>

PasswordInputs == { "None", << 1, 2, 3, 4, 5, 6 >>, << 48, 0, 255, 7, 9, 11 >> }

InitConnect ==
    /\ InitSyncIdle
    /\ InitCommandIdle
    /\ InitHistoryIdle
    /\ fn_name = "none" /\ fn_in = << >> /\ fn_out = NoRet
    /\ es_pc = "idle" /\ es_ret = NoRet /\ es_in = << >> /\ es_ends = FALSE
    /\ es_taken = 0 /\ es_out = << >> /\ last_subscribe = << >>
    /\ wc_pc = "idle" /\ wc_config = Config_default /\ wc_step = 0
    /\ wc_log = << >> /\ wc_ret = NoRet
    /\ InitReadHistoryEntryIdle
    /\ InitTimekeeperIdle
    /\ cn_pc = "get_devices"
    /\ cn_devices \in SeqsUpTo(Devices, MaxDevices)
    /\ cn_password \in PasswordInputs
    /\ cn_device = 0
    /\ cn_handles = << >>
    /\ cn_calls = << >>
    /\ cn_ret = NoRet

NextConnect ==
    \/ \E ok \in BOOLEAN : ConnectGetDevices(ok)
    \/ \E ok \in BOOLEAN : ConnectDevice(ok)
    \/ \E ok \in BOOLEAN : ConnectGetInfo(ok)
    \/ \E ok \in BOOLEAN : ConnectWritePassword(ok)

SpecConnect == InitConnect /\ [][NextConnect]_vars

CallsNamed(log, name) == { k \in 1..Len(log) : log[k][1] = name }

\* C24: connect returns NoDevice, having made no connect call and no write,
\* when the discovery succeeds and no discovered device advertises the
\* TimeFlip service (a failed discovery returns its own error); when one does
\* it never returns NoDevice, calls the transport's connect exactly when the
\* selected device is not connected, whether or not the device is paired, and
\* returns the facade only after resolving the nine handles in order and
\* writing the given password, or six bytes 0x30, once as its last call.
C24_Connect ==
    LET advertised == \E k \in 1..Len(cn_devices) : cn_devices[k].timeflip
        connects == CallsNamed(cn_calls, "connect")
        writes == CallsNamed(cn_calls, "write")
        infos == CallsNamed(cn_calls, "get_info")
    IN  /\ (cn_pc = "returned" /\ ~advertised) =>
              /\ cn_calls = << << "get_devices" >> >>
              /\ connects = {} /\ writes = {}
              /\ cn_ret \in { Err(NoDevice), Err(BluetoothError) }
        /\ (cn_pc = "returned" /\ ~advertised /\ cn_device = 0
              /\ cn_ret # Err(BluetoothError)) => cn_ret = Err(NoDevice)
        /\ cn_ret = Err(NoDevice) => ~advertised
        /\ cn_device # 0 =>
              /\ cn_devices[cn_device].timeflip
              /\ cn_devices[cn_device].connected => connects = {}
              /\ (~cn_devices[cn_device].connected /\ cn_pc # "connect") =>
                    /\ Cardinality(connects) = 1
                    /\ cn_calls[2] = << "connect", cn_device >>
        /\ cn_ret.tag = "Ok" =>
              /\ cn_ret.val.characteristics = CharacteristicOrder
              /\ Cardinality(infos) = 9
              /\ \A k \in infos : \A j \in writes : k < j
              /\ \A k \in infos : \A j \in connects : j < k
              /\ Cardinality(writes) = 1
              /\ cn_calls[Len(cn_calls)] =
                    << "write", "password",
                       IF cn_password = "None" THEN << 48, 48, 48, 48, 48, 48 >>
                       ELSE cn_password >>
              /\ cn_ret.val.device = cn_device
        /\ (cn_pc = "returned" /\ cn_ret.tag = "Err" /\ cn_ret # Err(NoDevice)) =>
              cn_ret = Err(BluetoothError)

\* an unpaired, unconnected device, found after one without the service, ends
\* up connected with the default password written last
C24_Witness ==
    /\ cn_ret.tag = "Ok"
    /\ Len(cn_devices) = 2
    /\ ~cn_devices[1].timeflip
    /\ cn_device = 2
    /\ ~cn_devices[2].paired /\ ~cn_devices[2].connected
    /\ cn_password = "None"
    /\ cn_calls[2] = << "connect", 2 >>
    /\ Len(cn_calls) = 12

(***************************************************************************)
(* Command result decoders and the leading byte of a result.               *)
(***************************************************************************)
\* the command id a result of the type starts with, and the least length the
\* decoder of the type asks for
EchoedId(type) ==
    CASE type = "NaiveDateTime" -> Command_id(GetTime)
      [] type = "SystemStatus" -> Command_id(ReadStatus)
      [] type = "FacetSettings" -> Command_id(GetTaskParameter(1))

MinimumLength(type) ==
    CASE type = "NaiveDateTime" -> 9
      [] type = "SystemStatus" -> 4
      [] type = "FacetSettings" -> 11

RejectsForeignLeadingByte(type) ==
    (Applied(type) /\ Len(fn_in) >= MinimumLength(type) /\ fn_in[1] # EchoedId(type)) =>
        /\ IsErrKind(fn_out, "InvalidCommand")
        /\ fn_out.err.arg = fn_in[1]

\* C25: the decoders of the time, of the system status and of the facet
\* settings each give an invalid-command error naming the leading byte when a
\* result of sufficient length does not start with the id of its command
\* (0x07, 0x10, 0x14); the unit decoder gives Ok on every input.
C25_LeadingByteValidated ==
    /\ EchoedId("NaiveDateTime") = 7
    /\ EchoedId("SystemStatus") = 16
    /\ EchoedId("FacetSettings") = 20
    /\ \A type \in CommandResultTypes \ { "()" } : RejectsForeignLeadingByte(type)
    /\ Applied("()") => fn_out = Ok(Unit)

\* what holds of the decoders other than that of the system status
LeadingByteValidatedElsewhere ==
    /\ RejectsForeignLeadingByte("NaiveDateTime")
    /\ RejectsForeignLeadingByte("FacetSettings")
    /\ Applied("()") => fn_out = Ok(Unit)
    /\ (Applied("NaiveDateTime") /\ fn_out.tag = "Ok") => fn_in[1] = 7
    /\ (Applied("FacetSettings") /\ fn_out.tag = "Ok") => fn_in[1] = 20

\* the system status decoder reads the lock mode from the leading byte
SystemStatusLeadingByte ==
    Applied("SystemStatus") =>
        /\ fn_out.tag = "Ok" => fn_in[1] \in { 1, 2 }
        /\ (Len(fn_in) >= 4 /\ fn_in[1] = 16) =>
              IsErrKind(fn_out, "InvalidLockMode") /\ fn_out.err.arg = 16

(***************************************************************************)
(* TimeFlip::read_history_entry and TimeFlip::read_last_history_entry.     *)
(***************************************************************************)
\* variant: the request of read_history_since
ReadRequest_since(id) == << 2 >> \o put_u16(id[1]) \o put_u16(id[2])

\* read_command.put_u8(0x01); read_command.put_u32(id)
ReadRequest(id) == << 1 >> \o put_u16(id[1]) \o put_u16(id[2])

\* 0xFFFF_FFFF
LastEntryId == << 65535, 65535 >>

EntryIds == { << hi, lo >> : hi, lo \in { 0, 1, 258, 65535 } }

\* what a read of the history characteristic returns: the sentinel, records
\* with and without the pause bit, a record that is too short, one whose
\* start time chrono does not represent
HistoryReads ==
    { EndRecord, Record(5, 1, 1000, 30), Record(7, 140, 1000, 30), << 0, 0, 0 >>,
      put_u32(3) \o << 2, 255, 0, 0, 0, 0, 0, 0, 0 >> \o put_u32(30) }

ReadHistoryEntryReturn(r) ==
    /\ rh_pc' = "returned"
    /\ rh_ret' = r

\* read_history_entry(id)
ReadHistoryEntry(id) ==
    /\ rh_pc = "start"
    /\ rh_fn' = "read_history_entry"
    /\ rh_id' = id
    /\ rh_pc' = "write"
    /\ UNCHANGED << rh_calls, rh_ret >>
    /\ UNCHANGED << syncVars, cmdVars, devVars, histVars, fnVars, eventVars, wcVars, connVars, tkVars >>

\* read_last_history_entry(): self.read_history_entry(0xFFFF_FFFF)
ReadLastHistoryEntry ==
    /\ rh_pc = "start"
    /\ rh_fn' = "read_last_history_entry"
    /\ rh_id' = LastEntryId
    /\ rh_pc' = "write"
    /\ UNCHANGED << rh_calls, rh_ret >>
    /\ UNCHANGED << syncVars, cmdVars, devVars, histVars, fnVars, eventVars, wcVars, connVars, tkVars >>

\* session.write_characteristic_value(history.id, read_command).await?
ReadHistoryEntryWrite(ok) ==
    /\ rh_pc = "write"
    /\ rh_calls' = Append(rh_calls, [ call |-> "write", id |-> "history",
                                      value |-> ReadRequest(rh_id), ok |-> ok ])
    /\ IF ok THEN rh_pc' = "read" /\ UNCHANGED rh_ret
       ELSE ReadHistoryEntryReturn(Err(BluetoothError))
    /\ UNCHANGED << rh_fn, rh_id >>
    /\ UNCHANGED << syncVars, cmdVars, devVars, histVars, fnVars, eventVars, wcVars, connVars, tkVars >>

\* let data = session.read_characteristic_value(history.id).await?;
\* Ok(Entry::from_data(&data)?)
ReadHistoryEntryRead(ok, data) ==
    /\ rh_pc = "read"
    /\ rh_calls' = Append(rh_calls, [ call |-> "read", id |-> "history",
                                      value |-> data, ok |-> ok ])
    /\ IF ok THEN ReadHistoryEntryReturn(Entry_from_data(data))
       ELSE ReadHistoryEntryReturn(Err(BluetoothError))
    /\ UNCHANGED << rh_fn, rh_id >>
    /\ UNCHANGED << syncVars, cmdVars, devVars, histVars, fnVars, eventVars, wcVars, connVars, tkVars >>

InitReadHistoryEntry ==
    /\ InitSyncIdle
    /\ InitCommandIdle
    /\ InitHistoryIdle
    /\ fn_name = "none" /\ fn_in = << >> /\ fn_out = NoRet
    /\ es_pc = "idle" /\ es_ret = NoRet /\ es_in = << >> /\ es_ends = FALSE
    /\ es_taken = 0 /\ es_out = << >> /\ last_subscribe = << >>
    /\ wc_pc = "idle" /\ wc_config = Config_default /\ wc_step = 0
    /\ wc_log = << >> /\ wc_ret = NoRet
    /\ InitConnectIdle
    /\ InitTimekeeperIdle
    /\ rh_pc = "start"
    /\ rh_fn = "none"
    /\ rh_id = << 0, 0 >>
    /\ rh_calls = << >>
    /\ rh_ret = NoRet

NextReadHistoryEntry ==
    \/ \E id \in EntryIds : ReadHistoryEntry(id)
    \/ ReadLastHistoryEntry
    \/ \E ok \in BOOLEAN : ReadHistoryEntryWrite(ok)
    \/ \E ok \in BOOLEAN, data \in HistoryReads : ReadHistoryEntryRead(ok, data)

SpecReadHistoryEntry == InitReadHistoryEntry /\ [][NextReadHistoryEntry]_vars

\* C26: read_history_entry(id) first writes the five bytes 0x01 and the id,
\* most significant byte first, to the history characteristic (four bytes
\* 0xFF for read_last_history_entry) and reads that characteristic at most
\* once, after the write; a failed write is the only call and its error is
\* returned, a failed read likewise ends the call, and a record of zeros read
\* back gives the end-of-history error, no Entry.
C26_SingleShot ==
    LET reads == { k \in 1..Len(rh_calls) : rh_calls[k].call = "read" }
        writes == { k \in 1..Len(rh_calls) : rh_calls[k].call = "write" }
    IN  /\ \A k \in 1..Len(rh_calls) : rh_calls[k].id = "history"
        /\ writes \subseteq { 1 } /\ reads \subseteq { 2 }
        /\ rh_calls # << >> =>
              LET request == rh_calls[1].value
              IN  /\ Len(request) = 5
                  /\ request[1] = 1
                  /\ get_u16(request, 2) = rh_id[1]
                  /\ get_u16(request, 4) = rh_id[2]
                  /\ rh_fn = "read_last_history_entry" =>
                        request = << 1, 255, 255, 255, 255 >>
                  /\ ~rh_calls[1].ok =>
                        /\ rh_pc = "returned" /\ rh_ret = Err(BluetoothError)
                        /\ reads = {}
        /\ rh_pc = "returned" =>
              /\ rh_calls # << >>
              /\ (rh_ret.tag = "Ok" \/ rh_calls[1].ok) => Len(rh_calls) = 2
        /\ Len(rh_calls) = 2 =>
              /\ rh_pc = "returned"
              /\ ~rh_calls[2].ok => rh_ret = Err(BluetoothError)
              /\ rh_calls[2].ok => rh_ret = Entry_from_data(rh_calls[2].value)
              /\ (rh_calls[2].ok /\ rh_calls[2].value = EndRecord) =>
                    IsErrKind(rh_ret, "EndOfHistory")

C26_Witness ==
    /\ rh_fn = "read_last_history_entry"
    /\ rh_pc = "returned"
    /\ Len(rh_calls) = 2
    /\ rh_calls[1].value = << 1, 255, 255, 255, 255 >>
    /\ rh_calls[2].ok
    /\ rh_calls[2].value = EndRecord
    /\ IsErrKind(rh_ret, "EndOfHistory")

TaskParameterFields(cmd) ==
    << << cmd.facet >> >> \o
    ( IF cmd.task.kind = "Simple"
      THEN << << 0 >>, put_u32(0) >>
      ELSE << << 1 >>, put_u32(cmd.task.timer) >> )

RECURSIVE Concat(_)
Concat(fields) ==
    IF fields = << >> THEN << >> ELSE Head(fields) \o Concat(Tail(fields))

\* C28: a SetTaskParameter is encoded as its id 0x13, the facet, a kind byte
\* (0 Simple, 1 Pomodoro) and one further field, the timer as four bytes,
\* most significant first, which is zero for Simple: seven bytes for either
\* kind.
C28_TaskParameterLayout ==
    (Applied("Command::to_vec") /\ fn_in.name = "SetTaskParameter") =>
        LET v == fn_out.val
            fields == TaskParameterFields(fn_in)
            timer == IF fn_in.task.kind = "Simple" THEN 0 ELSE fn_in.task.timer
        IN  /\ fn_out.tag = "Ok"
            /\ Len(v) = 7
            /\ v[1] = 19
            /\ v[2] = fn_in.facet
            /\ v[3] = IF fn_in.task.kind = "Simple" THEN 0 ELSE 1
            /\ ((v[4] * 256 + v[5]) * 256 + v[6]) * 256 + v[7] = timer
            /\ v = << v[1] >> \o Concat(fields)
            /\ Len(fields) = 3

C28_Witness ==
    \/ /\ Applied("Command::to_vec")
       /\ fn_in = SetTaskParameter(12, Pomodoro(1500))
       /\ fn_out = Ok(<< 19, 12, 1, 0, 0, 5, 220 >>)
    \/ /\ Applied("Command::to_vec")
       /\ fn_in = SetTaskParameter(3, Simple)
       /\ fn_out = Ok(<< 19, 3, 0, 0, 0, 0, 0 >>)

\* the statement with two fields after the kind byte
C28_TwoAdditionalFields ==
    (Applied("Command::to_vec") /\ fn_in.name = "SetTaskParameter") =>
        LET fields == TaskParameterFields(fn_in)
        IN  /\ fn_out.tag = "Ok"
            /\ fn_out.val = << 19 >> \o Concat(fields)
            /\ fields[1] = << fn_in.facet >>
            /\ fields[2] = << IF fn_in.task.kind = "Simple" THEN 0 ELSE 1 >>
            /\ Len(fields) - 2 = 2
            /\ Len(fn_out.val) = Len(ToVec(SetTaskParameter(fn_in.facet, Simple)).val)

(***************************************************************************)
(* Percent and BlinkInterval.                                              *)
(***************************************************************************)
\* C29: Percent::new gives the Percent holding the value for 0..100 and
\* OutOfRange with the value for every larger one; the battery level that
\* battery_level() returns and the one a BatteryLevel event carries are the
\* first byte read, and within 0..100.
C29_PercentRange ==
    /\ Applied("Percent::new") =>
          /\ fn_in \in 0..100 => fn_out = Ok(fn_in)
          /\ fn_in > 100 =>
                IsErrKind(fn_out, "OutOfRange") /\ fn_out.err.arg = fn_in
    /\ (Applied("battery_level") /\ fn_out.tag = "Ok") =>
          /\ fn_out.val \in 0..100
          /\ fn_in.ok /\ fn_in.data # << >> /\ fn_out.val = fn_in.data[1]
    /\ (Applied("battery_level") /\ fn_in.ok /\ fn_in.data # << >>
          /\ fn_in.data[1] > 100) =>
          IsErrKind(fn_out, "InvalidBatteryLevel")
    /\ (Applied("Event::from_bluetooth_event") /\ fn_out.tag = "Ok"
          /\ fn_out.val.kind = "BatteryLevel") =>
          /\ fn_out.val.percent \in 0..100
          /\ fn_out.val.percent = fn_in.value[1]

C29_Witness ==
    \/ Applied("Percent::new") /\ fn_in = 100 /\ fn_out = Ok(100)
    \/ Applied("Percent::new") /\ fn_in = 101 /\ IsErrKind(fn_out, "OutOfRange")
    \/ Applied("battery_level") /\ fn_in.data = << 255 >> /\ fn_in.ok
          /\ IsErrKind(fn_out, "InvalidBatteryLevel")

\* C30: BlinkInterval::new gives the BlinkInterval holding the value for
\* 5..60 and OutOfRange with the value for 0..4 and for every value above 60;
\* the BlinkInterval command built from what it accepts is the id 0x0A and
\* that value, a byte within 5..60, and nothing is built from what it rejects.
C30_BlinkIntervalRange ==
    /\ Applied("BlinkInterval::new") =>
          /\ fn_in \in 5..60 => fn_out = Ok(fn_in)
          /\ fn_in \notin 5..60 =>
                IsErrKind(fn_out, "OutOfRange") /\ fn_out.err.arg = fn_in
    /\ Applied("Command::BlinkInterval") =>
          /\ fn_out.tag = "Ok" <=> fn_in \in 5..60
          /\ fn_out.tag = "Ok" =>
                /\ fn_out.val = << 10, fn_in >>
                /\ fn_out.val[2] \in 5..60
    /\ (Applied("Command::to_vec") /\ fn_in.name = "BlinkInterval") =>
          fn_out.tag = "Ok" /\ fn_out.val[2] \in 5..60

C30_Witness ==
    \/ Applied("BlinkInterval::new") /\ fn_in = 4 /\ IsErrKind(fn_out, "OutOfRange")
    \/ Applied("BlinkInterval::new") /\ fn_in = 61 /\ IsErrKind(fn_out, "OutOfRange")
    \/ Applied("Command::BlinkInterval") /\ fn_in = 5 /\ fn_out = Ok(<< 10, 5 >>)

(***************************************************************************)
(* Failures inside TimeFlip::sync.                                         *)
(***************************************************************************)
PerFacetDirective(st) ==
    st.tag = "Ok" /\ st.val.sync \in { "FacetColor", "TaskParameters" }

\* C31: a status read that fails or does not decode, and a corrective command
\* that returns an error, make sync return that error in its next step with
\* no transport call in between; after the return nothing changes; and when
\* the command for facet k of a per-facet directive failed, the commands
\* written since the status read are those of facets 1..k only.
C31_FailureAborts ==
    [][ /\ sync_pc = "returned" => UNCHANGED << syncVars, cmdVars, devVars >>
        /\ (sync_pc = "read" /\ sync_state'.tag # "Ok" /\ sync_state' # sync_state) =>
              /\ sync_pc' = "returned"
              /\ sync_ret' = sync_state'
              /\ sync_ret'.tag = "Err"
              /\ written' = << >>
              /\ ~SyncActive'
        /\ (sync_pc = "call" /\ pc["sync"] = "done" /\ ret["sync"].tag # "Ok") =>
              /\ sync_pc' = "returned"
              /\ sync_ret' = ret["sync"]
              /\ written' = written /\ nreads' = nreads
              /\ calls' = calls /\ devVars' = devVars
        /\ (sync_pc' = "returned" /\ sync_ret'.tag = "Err" /\ PerFacetDirective(sync_state')
              /\ written' # << >>) =>
              /\ Len(written') = side_i' + 1
              /\ \A j \in 1..Len(written') : written'[j].facet = j
              /\ \A j \in 1..Len(written') : written'[j].facet <= side_i' + 1 ]_vars

C31_Witness ==
    /\ SyncReturnedErr("CommandExecutionFailed")
    /\ PerFacetDirective(sync_state)
    /\ sync_state.val.sync = "TaskParameters"
    /\ side_i = 4
    /\ Len(written) = 5
    /\ written[5].facet = 5

(***************************************************************************)
(* The status sync acts on.                                                *)
(***************************************************************************)
\* C32: against a device that declares two directives in turn, every step
\* sync takes at the head of its loop is one status read, whose result is what
\* the device declares at that moment; the command it then enters is the one
\* of that directive; no status is read and the status held is not replaced
\* anywhere else; and last_sync changes only when an arm is complete, to the
\* directive of the status of that iteration.
C32_FreshStatus ==
    [][ /\ sync_pc = "read" =>
              /\ nreads' = Min(nreads + 1, MaxReadsLong)
              /\ written' = << >>
              /\ sync_state'.tag = "Ok"
              /\ sync_state'.val.sync = plan[1]
              /\ last_sync' = last_sync
              /\ sync_pc' = "call"
              /\ pc'["sync"] = "write"
              /\ command'["sync"].name = DirectiveCommandName(plan[1])
        /\ sync_pc # "read" =>
              /\ nreads' = nreads
              /\ sync_state' = sync_state
              /\ plan' = plan
              /\ command'["sync"] # NoCommand =>
                    command'["sync"].name = DirectiveCommandName(sync_state.val.sync)
        /\ last_sync' # last_sync =>
              /\ sync_pc = "call" /\ sync_pc' = "read"
              /\ last_sync' = sync_state.val.sync
              /\ Len(written) = DirectiveCommandCount(sync_state.val.sync)
        /\ (sync_pc = "call" /\ sync_pc' = "read") => last_sync' = sync_state.val.sync
      ]_vars

C32_Witness ==
    /\ sync_pc = "call"
    /\ nreads = 3
    /\ plan = << "FacetColor", "AutoPause" >>
    /\ last_sync = "FacetColor"
    /\ sync_state.val.sync = "AutoPause"
    /\ command["sync"] = AutoPauseTime(config.auto_pause)
    /\ pc["sync"] = "write"

(***************************************************************************)
(* The order of the transport calls of read_history_since.                 *)
(***************************************************************************)
HistCallsNamed(name) == { k \in 1..Len(hist_calls) : hist_calls[k][1] = name }

\* C33: read_history_since writes its request at most once, as its third
\* transport call, after start_notify and characteristic_event_stream have
\* both succeeded in that order; the request the device receives is 0x02 and
\* the start id, most significant byte first; no event of the stream is
\* consumed and no entry collected before the request has been written, and
\* once the loop is entered the request has been written exactly once.
C33_RequestAfterSubscription ==
    LET writes == HistCallsNamed("write_characteristic_value")
    IN  /\ writes \subseteq { 3 }
        /\ writes # {} =>
              /\ hist_calls[1] = << "start_notify", TRUE >>
              /\ hist_calls[2] = << "characteristic_event_stream", TRUE >>
              /\ "history" \in notifying \/ hist_pc = "returned"
        /\ HistCallsNamed("start_notify") \subseteq { 1 }
        /\ HistCallsNamed("characteristic_event_stream") \subseteq { 2 }
        /\ (consumed > 0 \/ entries # << >> \/ hist_pc \in { "next", "stop_notify" }) =>
              /\ writes = { 3 }
              /\ hist_calls[3] = << "write_characteristic_value", TRUE >>
        /\ dev_history # << >> =>
              /\ writes = { 3 }
              /\ Len(dev_history) = 5
              /\ dev_history[1] = 2
              /\ get_u32(dev_history, 2) = since_id
        /\ writes = {} => (consumed = 0 /\ dev_history = << >>)

C33_Witness ==
    /\ hist_pc = "next"
    /\ consumed = 2
    /\ Len(entries) = 2
    /\ Len(hist_calls) = 3
    /\ hist_calls[3] = << "write_characteristic_value", TRUE >>
    /\ dev_history = << 2, 0, 0, 1, 14 >>

(***************************************************************************)
(* The merge of the History command.                                       *)
(***************************************************************************)
IdsOf(list) == { list[k].id : k \in 1..Len(list) }
EntriesOf(list) == { list[k] : k \in 1..Len(list) }
NoIdTwice(list) == \A j, k \in 1..Len(list) : list[j].id = list[k].id => j = k
Occurrences(list, e) == Cardinality({ k \in 1..Len(list) : list[k] = e })

\* C34: when neither the stored nor the freshly read list repeats an id, the
\* merged list repeats none; in any case an entry of the merged list whose id
\* was read again is the freshly read one, every freshly read entry is in the
\* merged list, every stored entry whose id was not read again is in it as
\* often as it was stored, and nothing else is.
C34_MergeKeyedById ==
    Applied("History") =>
        LET stored == fn_in.stored
            update == fn_in.update
            merged == fn_out.val
        IN  /\ (NoIdTwice(stored) /\ NoIdTwice(update)) => NoIdTwice(merged)
            /\ \A k \in 1..Len(merged) :
                  merged[k].id \in IdsOf(update) => merged[k] \in EntriesOf(update)
            /\ \A e \in EntriesOf(update) :
                  Occurrences(merged, e) = Occurrences(update, e)
            /\ \A e \in EntriesOf(stored) :
                  e.id \notin IdsOf(update) =>
                      Occurrences(merged, e) = Occurrences(stored, e)
            /\ EntriesOf(merged) \subseteq EntriesOf(stored) \cup EntriesOf(update)
            /\ IdsOf(merged) = IdsOf(stored) \cup IdsOf(update)

C34_Witness ==
    /\ Applied("History")
    /\ fn_in.stored = << [id |-> 2, duration |-> 10], [id |-> 1, duration |-> 11],
                         [id |-> 3, duration |-> 10] >>
    /\ fn_in.update = << [id |-> 3, duration |-> 20], [id |-> 2, duration |-> 20] >>
    /\ fn_out = Ok(<< [id |-> 1, duration |-> 11], [id |-> 3, duration |-> 20],
                      [id |-> 2, duration |-> 20] >>)

(***************************************************************************)
(* The order of the checks at the head of sync's loop.                     *)
(***************************************************************************)
\* C35: a status with both hardware flags makes sync return
\* AccelerometerError; a status with a hardware flag whose directive is the
\* one handled just before makes sync return the hardware error, not
\* SyncError; and so does one whose directive is Synchronized, not Ok.
C35_HardwareFirst ==
    sync_state.tag = "Ok" =>
        LET st == sync_state.val
            flagged == st.accelerometer_error \/ st.flash_error
        IN  /\ (st.accelerometer_error /\ st.flash_error) =>
                  SyncReturnedErr("AccelerometerError")
            /\ (flagged /\ last_sync = st.sync) =>
                  /\ ~SyncReturnedErr("SyncError")
                  /\ SyncReturnedErr(IF st.accelerometer_error THEN "AccelerometerError"
                                     ELSE "FlashError")
            /\ (flagged /\ st.sync = "Synchronized") =>
                  sync_pc = "returned" /\ sync_ret # Ok(Unit)

\* the directive of the read before is repeated with both flags set
C35_Witness ==
    /\ sync_state.tag = "Ok"
    /\ sync_state.val.accelerometer_error /\ sync_state.val.flash_error
    /\ sync_state.val.sync = "FacetColor"
    /\ last_sync = "FacetColor"
    /\ nreads = 2
    /\ SyncReturnedErr("AccelerometerError")

\* the commands among the per-facet commands of a configuration that are
\* written for facet k
CommandsFor(out, k) ==
    { c \in UNION { { out.commands[i].sync_color, out.commands[i].sync_task,
                      out.commands[i].write_color, out.commands[i].write_task } :
                    i \in DOMAIN out.commands } :
        c.tag = "Ok" /\ c.val.facet = k }

\* the sides of a configuration whose facet field is k
SidesOfFacet(cfg, k) == { j \in 1..Len(cfg.sides) : cfg.sides[j].facet = k }

\* C36: for a Config that Config::default or deserialization produces, every
\* facet k of 1..12 has exactly one side whose facet field is k, that side
\* stands at position k - 1, and the commands sync and write_config write for
\* facet k are SetColor and SetTaskParameter with that side's colour and
\* task; a side the file names for facet k is the one whose values are written
C36_PairingAgrees ==
    Applied("Config") /\ fn_out.tag = "Ok" =>
        \A cfg \in { fn_out.val.config, Config_default } :
            LET out == [config |-> cfg, commands |-> PerFacetCommands(cfg)]
            IN  \A k \in 1..12 :
                    /\ SidesOfFacet(cfg, k) = { k }
                    /\ CommandsFor(out, k) =
                           { Ok(SetColor(k, cfg.sides[k].color)),
                             Ok(SetTaskParameter(k, cfg.sides[k].task)) }
                    /\ out.commands[k - 1].sync_color = out.commands[k - 1].write_color
                    /\ out.commands[k - 1].sync_task = out.commands[k - 1].write_task
                    /\ cfg = fn_out.val.config =>
                           /\ out = fn_out.val
                           /\ \A j \in 1..Len(fn_in) :
                                  fn_in[j].facet = k =>
                                      /\ cfg.sides[k].color = fn_in[j].color
                                      /\ cfg.sides[k].task = fn_in[j].task

\* a file that lists facet 12 before facet 2 before facet 1 was deserialized
\* and its per-facet commands were computed
C36_Witness ==
    /\ Applied("Config")
    /\ fn_out.tag = "Ok"
    /\ Len(fn_in) = 3
    /\ fn_in[1].facet = 12 /\ fn_in[2].facet = 2 /\ fn_in[3].facet = 1
    /\ fn_out.val.commands[11].write_task = Ok(SetTaskParameter(12, Pomodoro(720)))

\* the loop of read_history_since was entered: start_notify, the stream
\* request and the write of the read request succeeded
LoopEntered ==
    /\ Len(hist_calls) >= 3
    /\ \A k \in 1..3 : ~FailedCall(k)

\* the loop was left because stream.next() gave None: every event was
\* consumed, none of them a sentinel or an event that ends the call
LeftByStreamEnd ==
    /\ LoopEntered
    /\ hist_pc \in { "stop_notify", "returned" }
    /\ consumed = Len(stream)
    /\ ~SentinelConsumed
    /\ ~UnexpectedEventConsumed

\* C37: when the stream of read_history_since ends with no sentinel
\* delivered, stop_notify is called exactly once before the call returns, and
\* the call returns Ok with the entries decoded from the whole stream once
\* that stop_notify succeeded (a failed stop_notify is the transport error of
\* C12); a call that entered its loop returns only after a sentinel, an
\* unexpected event or the end of the stream, and while none of these has
\* come and every delivered event is consumed the loop cannot take a step.
C37_StreamEnd ==
    /\ (LeftByStreamEnd /\ hist_pc = "returned") =>
           /\ stop_calls = 1
           /\ Len(hist_calls) = 4
           /\ hist_calls[4][1] = "stop_notify"
           /\ ~FailedCall(4) =>
                  /\ hist_ret = Ok(Delivered(Len(stream)))
                  /\ hist_ret.val = entries
                  /\ notifying = {}
           /\ FailedCall(4) => hist_ret = Err(BluetoothError)
    /\ (LeftByStreamEnd /\ hist_pc = "stop_notify") =>
           stop_calls = 0 /\ hist_ret = NoRet
    /\ (LoopEntered /\ hist_pc \in { "stop_notify", "returned" }) =>
           \/ SentinelConsumed
           \/ UnexpectedEventConsumed
           \/ (consumed = Len(stream) /\ stream_ends)
    /\ (hist_pc = "next" /\ consumed = Len(stream) /\ ~stream_ends) =>
           /\ hist_ret = NoRet
           /\ ~ENABLED NextHistory

\* the stream delivered entries 5 and 3 and ended; the call has returned them
C37_Witness ==
    /\ stream = << "entry5", "entry3" >>
    /\ stream_ends
    /\ LeftByStreamEnd
    /\ hist_pc = "returned"
    /\ hist_ret.tag = "Ok"
    /\ Ids(hist_ret.val) = << 5, 3 >>
    /\ stop_calls = 1

\* the stream delivered entry 5 and stays open without a sentinel: the call
\* waits in its loop
C37_WitnessWaiting ==
    /\ stream = << "entry5" >>
    /\ ~stream_ends
    /\ hist_pc = "next"
    /\ consumed = 1

\* C38: Facet::new returns Ok or Err for every index, and for every Facet of
\* a decoded history entry, a decoded event or a deserialized Config the
\* lookup of its name by index_zero() gives an element of the table, with an
\* index of 0..11.
C38_NeverPanics ==
    /\ Applied("Facet::new") => fn_out.tag \in { "Ok", "Err" }
    /\ Applied("facet_name") => fn_out.tag = "Ok" /\ fn_out.val \in 0..11

\* what holds of the claim: the facets of a deserialized Config are within
\* 1..12 and their lookups stay within the table
ConfigFacetsInRange ==
    (Applied("facet_name") /\ fn_in.origin = "Config") =>
        fn_out.tag = "Ok" /\ fn_out.val \in 0..11 /\ fn_in.facet \in 1..12

(***************************************************************************)
(* timekeeper: StatefulList                                                *)
(***************************************************************************)
\* largest number of items of a list
MaxItems == 5

Some(v) == [tag |-> "Some", val |-> v]

\* StatefulList::with_items: list_state.select(selection.or(Some(0)))
With_items(items, selection) ==
    [ items |-> items,
      selected |-> IF selection.tag = "None" THEN Some(0) ELSE selection ]

\* StatefulList::next
List_next(list) ==
    IF list.items = << >> THEN [list EXCEPT !.selected = NoSelection]
    ELSE IF list.selected.tag = "Some"
    THEN [list EXCEPT !.selected =
             IF list.selected.val >= Len(list.items) - 1 THEN Some(0)
             ELSE Some(list.selected.val + 1)]
    ELSE [list EXCEPT !.selected = Some(0)]

\* StatefulList::previous
List_previous(list) ==
    IF list.items = << >> THEN [list EXCEPT !.selected = NoSelection]
    ELSE IF list.selected.tag = "Some"
    THEN [list EXCEPT !.selected =
             IF list.selected.val = 0 THEN Some(Len(list.items) - 1)
             ELSE Some(list.selected.val - 1)]
    ELSE [list EXCEPT !.selected = Some(0)]

\* Vec::remove(i), i counted from 0
Vec_remove(items, i) == SubSeq(items, 1, i) \o SubSeq(items, i + 2, Len(items))

\* StatefulList::remove; Vec::remove panics when the index is not below the
\* length
List_remove(list) ==
    IF list.selected.tag = "None" THEN Ok(list)
    ELSE LET i == list.selected.val
             rest == Vec_remove(list.items, i)
         IN  IF i >= Len(list.items) THEN [tag |-> "Panic"]
             ELSE IF rest = << >> THEN Ok([items |-> rest, selected |-> NoSelection])
             ELSE IF i >= Len(rest) THEN Ok([items |-> rest, selected |-> Some(Len(rest))])
             ELSE Ok([items |-> rest, selected |-> Some(i)])

\* StatefulList::selected: the item at the selected index, if there is one
List_selected(list) ==
    IF list.selected.tag = "Some" /\ list.selected.val < Len(list.items)
    THEN Some(list.items[list.selected.val + 1])
    ELSE NoSelection

AppList == [items |-> tk_items, selected |-> tk_selected]

\* the list after an operation, the rest of the timekeeper left alone
ListBecomes(list, op) ==
    /\ tk_items' = list.items
    /\ tk_selected' = list.selected
    /\ tk_last' = [src |-> "list", op |-> op]
    /\ UNCHANGED << tk_state, tk_entries, tk_show_invisible, tk_textarea >>

ListNext ==
    /\ tk_state = "list"
    /\ ListBecomes(List_next(AppList), "next")
    /\ UNCHANGED << syncVars, cmdVars, devVars, histVars, fnVars, eventVars, wcVars, connVars, rhVars >>

ListPrevious ==
    /\ tk_state = "list"
    /\ ListBecomes(List_previous(AppList), "previous")
    /\ UNCHANGED << syncVars, cmdVars, devVars, histVars, fnVars, eventVars, wcVars, connVars, rhVars >>

ListRemove ==
    /\ tk_state = "list"
    /\ LET r == List_remove(AppList)
       IN  IF r.tag = "Ok" THEN ListBecomes(r.val, "remove")
           ELSE /\ tk_state' = "panicked"
                /\ tk_last' = [src |-> "list", op |-> "remove"]
                /\ UNCHANGED << tk_items, tk_selected, tk_entries, tk_show_invisible,
                                tk_textarea >>
    /\ UNCHANGED << syncVars, cmdVars, devVars, histVars, fnVars, eventVars, wcVars, connVars, rhVars >>

\* item lists as App builds them: entry ids in ascending order, none twice
ItemLists ==
    { q \in SeqsUpTo(1..MaxItems, MaxItems) : \A k \in 1..(Len(q) - 1) : q[k] < q[k + 1] }

\* a list from with_items, as App calls it: without a selection, or with the
\* position of an item of the list
InitStatefulList ==
    /\ InitSyncIdle
    /\ InitCommandIdle
    /\ InitHistoryIdle
    /\ fn_name = "none" /\ fn_in = << >> /\ fn_out = NoRet
    /\ es_pc = "idle" /\ es_ret = NoRet /\ es_in = << >> /\ es_ends = FALSE
    /\ es_taken = 0 /\ es_out = << >> /\ last_subscribe = << >>
    /\ wc_pc = "idle" /\ wc_config = Config_default /\ wc_step = 0
    /\ wc_log = << >> /\ wc_ret = NoRet
    /\ InitConnectIdle
    /\ InitReadHistoryEntryIdle
    /\ tk_state = "list"
    /\ tk_items \in ItemLists
    /\ \E selection \in { NoSelection } \cup { Some(i) : i \in 0..(Len(tk_items) - 1) } :
           tk_selected = With_items(tk_items, selection).selected
    /\ tk_entries = << >>
    /\ tk_show_invisible = FALSE
    /\ tk_textarea = ""
    /\ tk_last = [src |-> "none"]

NextStatefulList ==
    \/ ListNext
    \/ ListPrevious
    \/ ListRemove

SpecStatefulList == InitStatefulList /\ [][NextStatefulList]_vars

ListOperation(op) == tk_last = [src |-> "list", op |-> op]

ValidSelection ==
    /\ tk_items # << >> => tk_selected.tag = "Some" /\ tk_selected.val < Len(tk_items)
    /\ tk_items = << >> => tk_selected = NoSelection

\* C39: after any sequence of next, previous and remove on a StatefulList no
\* operation has panicked, the selected index is below the number of items
\* whenever there are items and the selection is None whenever there are
\* none.
C39_SelectionValid ==
    tk_last.src = "list" => tk_state = "list" /\ ValidSelection

\* what holds of the claim: next and previous leave a valid selection,
\* whatever the selection was before
NextPreviousValid ==
    (ListOperation("next") \/ ListOperation("previous")) => ValidSelection

\* next and previous wrap around at the ends of a list with a valid selection
NextPreviousWrap ==
    [][(tk_state = "list" /\ ValidSelection /\ tk_items # << >>) =>
          /\ ListOperation("next")' =>
                 tk_selected'.val = (tk_selected.val + 1) % Len(tk_items)
          /\ ListOperation("previous")' =>
                 tk_selected'.val = (tk_selected.val + Len(tk_items) - 1) % Len(tk_items)]_vars

(***************************************************************************)
(* timekeeper: run                                                         *)
(***************************************************************************)
\* largest entry id of the history
MaxEntries == 2

EntryIds32 == 1..MaxEntries

\* descriptions and text area contents
Texts == { "", "a" }

\* a MyEntry: long stands for entry.duration > 30 s
MyEntry(visible, long, description) ==
    [ present |-> TRUE, visible |-> visible, long |-> long, description |-> description ]

NoEntry == [ present |-> FALSE, visible |-> FALSE, long |-> FALSE, description |-> "" ]

\* the ids of a set in ascending order, from id from on (sort() of the ids)
RECURSIVE Ascending(_, _)
Ascending(ids, from) ==
    IF from > MaxEntries THEN << >>
    ELSE IF from \in ids THEN << from >> \o Ascending(ids, from + 1)
    ELSE Ascending(ids, from + 1)

\* iter().position(|e| e == item)
Position(items, item) ==
    IF \E k \in 1..Len(items) : items[k] = item
    THEN Some((CHOOSE k \in 1..Len(items) : items[k] = item) - 1)
    ELSE NoSelection

\* App::new_from_entries: the visible map longer than 30 s, nothing
\* selected by the caller
New_from_entries(map) ==
    With_items(Ascending({ id \in EntryIds32 :
                             /\ map[id].present
                             /\ map[id].visible
                             /\ map[id].long }, 1),
               NoSelection)

\* App::update_entry_list
Update_entry_list(map, show_invisible, list) ==
    LET new_items == Ascending({ id \in EntryIds32 :
                                   /\ map[id].present
                                   /\ map[id].long
                                   /\ (map[id].visible \/ show_invisible) }, 1)
        selection == IF List_selected(list).tag = "Some"
                     THEN Position(new_items, List_selected(list).val)
                     ELSE NoSelection
    IN  With_items(new_items, selection)

\* the for loop over the update of read_history_since: a new entry is
\* inserted visible and without description, a known one has its Entry
\* replaced
Merge_update(map, update) ==
    [ id \in EntryIds32 |->
        IF update[id] = "absent" THEN map[id]
        ELSE IF map[id].present THEN [map[id] EXCEPT !.long = (update[id] = "long")]
        ELSE MyEntry(TRUE, update[id] = "long", "") ]

Updates == [EntryIds32 -> { "absent", "short", "long" }]

NoUpdate == [id \in EntryIds32 |-> "absent"]

\* the description of the selected entry, or the empty text
Selected_text(map, list) ==
    IF List_selected(list).tag = "Some"
    THEN map[List_selected(list).val].description
    ELSE ""

\* variant: any double tap ends a pause
OnDoubleTap_any_ends_pause(state, pause) ==
    IF state = "Paused" THEN "Selecting"
    ELSE IF pause THEN "Paused" ELSE state

\* Some(TimeEvent::DoubleTap { pause, .. })
OnDoubleTap(state, pause) ==
    IF state = "Paused"
    THEN IF ~pause THEN "Selecting" ELSE state
    ELSE IF pause THEN "Paused" ELSE state

\* Some(TimeEvent::Facet(_facet))
OnFacet(state) == IF state = "Paused" THEN "Selecting" ELSE state

Running == tk_state \in { "Selecting", "Editing", "Paused" }

DeviceEvent(name) == [src |-> "device", event |-> name]

\* a handled key: whether it was 'p', and whether the call it awaited succeeded
KeyEvent(code, ok) == [src |-> "key", code |-> IF code = "p" THEN "p" ELSE "other", ok |-> ok]

\* event = stream.next(), a double tap
TkDoubleTap(pause) ==
    /\ Running
    /\ tk_state' = OnDoubleTap(tk_state, pause)
    /\ tk_last' = DeviceEvent(IF pause THEN "DoubleTap(pause)" ELSE "DoubleTap(unpause)")
    /\ UNCHANGED << tk_items, tk_selected, tk_entries, tk_show_invisible, tk_textarea >>
    /\ UNCHANGED << syncVars, cmdVars, devVars, histVars, fnVars, eventVars, wcVars, connVars, rhVars >>

\* event = stream.next(), a facet change
TkFacet ==
    /\ Running
    /\ tk_state' = OnFacet(tk_state)
    /\ tk_last' = DeviceEvent("Facet")
    /\ UNCHANGED << tk_items, tk_selected, tk_entries, tk_show_invisible, tk_textarea >>
    /\ UNCHANGED << syncVars, cmdVars, devVars, histVars, fnVars, eventVars, wcVars, connVars, rhVars >>

\* Some(_) => continue, None => continue, and the delay
TkOtherEvent ==
    /\ Running
    /\ tk_last' = DeviceEvent("other")
    /\ UNCHANGED << tk_state, tk_items, tk_selected, tk_entries, tk_show_invisible,
                    tk_textarea >>
    /\ UNCHANGED << syncVars, cmdVars, devVars, histVars, fnVars, eventVars, wcVars, connVars, rhVars >>

\* res = &mut bg_task with an error: bail!
TkBackgroundTaskFailed ==
    /\ Running
    /\ tk_state' = "exited"
    /\ tk_last' = [src |-> "task"]
    /\ UNCHANGED << tk_items, tk_selected, tk_entries, tk_show_invisible, tk_textarea >>
    /\ UNCHANGED << syncVars, cmdVars, devVars, histVars, fnVars, eventVars, wcVars, connVars, rhVars >>

KeyCodes == { "q", "p", "d", "t", "s", "Right", "Down", "Up", "Esc", "x" }

\* the keys whose handling awaits a call that can fail
AwaitingKeys == { "q", "p", "s" }

\* the list and the text area after a key of the Selecting arm
TkSelected(list) ==
    /\ tk_items' = list.items
    /\ tk_selected' = list.selected
    /\ tk_textarea' = Selected_text(tk_entries', list)

\* State::Selecting, a key press; ok tells whether the call the key awaits
\* succeeded, update is what read_history_since returned
TkKeySelecting(code, ok, update) ==
    /\ tk_state = "Selecting"
    /\ tk_last' = KeyEvent(code, ok)
    /\ CASE code = "q" ->
              /\ tk_state' = "exited"
              /\ UNCHANGED << tk_items, tk_selected, tk_entries, tk_show_invisible,
                              tk_textarea >>
         [] code = "p" ->
              /\ tk_state' = IF ok THEN "Paused" ELSE "exited"
              /\ UNCHANGED << tk_entries, tk_show_invisible >>
              /\ IF ok THEN TkSelected(AppList)
                 ELSE UNCHANGED << tk_items, tk_selected, tk_textarea >>
         [] code = "d" ->
              LET selected == List_selected(AppList)
                  toggled == [tk_entries EXCEPT ![selected.val].visible = ~@]
              IN  IF selected.tag = "Some"
                  THEN /\ tk_entries' = toggled
                       /\ UNCHANGED tk_show_invisible
                       /\ IF ~toggled[selected.val].visible /\ ~tk_show_invisible
                          THEN IF List_remove(AppList).tag = "Ok"
                               THEN /\ TkSelected(List_remove(AppList).val)
                                    /\ UNCHANGED tk_state
                               ELSE /\ tk_state' = "panicked"
                                    /\ UNCHANGED << tk_items, tk_selected, tk_textarea >>
                          ELSE TkSelected(AppList) /\ UNCHANGED tk_state
                  ELSE /\ UNCHANGED << tk_state, tk_entries, tk_show_invisible >>
                       /\ TkSelected(AppList)
         [] code = "t" ->
              /\ tk_show_invisible' = ~tk_show_invisible
              /\ UNCHANGED << tk_state, tk_entries >>
              /\ TkSelected(Update_entry_list(tk_entries, ~tk_show_invisible, AppList))
         [] code = "s" ->
              IF ok
              THEN /\ tk_entries' = Merge_update(tk_entries, update)
                   /\ UNCHANGED << tk_state, tk_show_invisible >>
                   /\ TkSelected(Update_entry_list(Merge_update(tk_entries, update),
                                                   tk_show_invisible, AppList))
              ELSE /\ tk_state' = "exited"
                   /\ UNCHANGED << tk_items, tk_selected, tk_entries, tk_show_invisible,
                                   tk_textarea >>
         [] code = "Right" ->
              /\ tk_state' = IF List_selected(AppList).tag = "Some" THEN "Editing"
                             ELSE tk_state
              /\ UNCHANGED << tk_entries, tk_show_invisible >>
              /\ TkSelected(AppList)
         [] code = "Down" ->
              /\ UNCHANGED << tk_state, tk_entries, tk_show_invisible >>
              /\ TkSelected(List_next(AppList))
         [] code = "Up" ->
              /\ UNCHANGED << tk_state, tk_entries, tk_show_invisible >>
              /\ TkSelected(List_previous(AppList))
         [] OTHER ->
              /\ UNCHANGED << tk_state, tk_entries, tk_show_invisible >>
              /\ TkSelected(AppList)
    /\ UNCHANGED << syncVars, cmdVars, devVars, histVars, fnVars, eventVars, wcVars, connVars, rhVars >>

\* State::Editing: Esc stores the text area as the description of the
\* selected entry, any other input goes to the text area
TkKeyEditing(code, text) ==
    /\ tk_state = "Editing"
    /\ tk_last' = KeyEvent(code, TRUE)
    /\ IF code = "Esc"
       THEN /\ tk_state' = "Selecting"
            /\ tk_entries' =
                   IF List_selected(AppList).tag = "Some"
                   THEN [tk_entries EXCEPT ![List_selected(AppList).val].description =
                                               tk_textarea]
                   ELSE tk_entries
            /\ UNCHANGED tk_textarea
       ELSE /\ tk_textarea' = text
            /\ UNCHANGED << tk_state, tk_entries >>
    /\ UNCHANGED << tk_items, tk_selected, tk_show_invisible >>
    /\ UNCHANGED << syncVars, cmdVars, devVars, histVars, fnVars, eventVars, wcVars, connVars, rhVars >>

\* State::Paused: 'p' unpauses the device, every other input is ignored
TkKeyPaused(code, ok) ==
    /\ tk_state = "Paused"
    /\ tk_last' = KeyEvent(code, ok)
    /\ tk_state' = IF code = "p" THEN IF ok THEN "Selecting" ELSE "exited"
                   ELSE tk_state
    /\ UNCHANGED << tk_items, tk_selected, tk_entries, tk_show_invisible, tk_textarea >>
    /\ UNCHANGED << syncVars, cmdVars, devVars, histVars, fnVars, eventVars, wcVars, connVars, rhVars >>

\* the entries after load_history and the first read_history_since
LoadedEntries ==
    [EntryIds32 -> { NoEntry } \cup { MyEntry(v, l, d) : v \in BOOLEAN, l \in BOOLEAN,
                                                        d \in Texts }]

\* run up to `let mut state = State::Selecting`
InitTimekeeper ==
    /\ InitSyncIdle
    /\ InitCommandIdle
    /\ InitHistoryIdle
    /\ fn_name = "none" /\ fn_in = << >> /\ fn_out = NoRet
    /\ es_pc = "idle" /\ es_ret = NoRet /\ es_in = << >> /\ es_ends = FALSE
    /\ es_taken = 0 /\ es_out = << >> /\ last_subscribe = << >>
    /\ wc_pc = "idle" /\ wc_config = Config_default /\ wc_step = 0
    /\ wc_log = << >> /\ wc_ret = NoRet
    /\ InitConnectIdle
    /\ InitReadHistoryEntryIdle
    /\ tk_state = "Selecting"
    /\ tk_entries \in LoadedEntries
    /\ tk_show_invisible = FALSE
    /\ tk_items = Update_entry_list(tk_entries, FALSE, New_from_entries(tk_entries)).items
    /\ tk_selected = Update_entry_list(tk_entries, FALSE, New_from_entries(tk_entries)).selected
    /\ tk_textarea = Selected_text(tk_entries, [items |-> tk_items, selected |-> tk_selected])
    /\ tk_last = [src |-> "none"]

NextTimekeeper ==
    \/ \E pause \in BOOLEAN : TkDoubleTap(pause)
    \/ TkFacet
    \/ TkOtherEvent
    \/ TkBackgroundTaskFailed
    \/ \E code \in KeyCodes \ { "s" }, ok \in BOOLEAN :
           /\ ok \/ code \in AwaitingKeys
           /\ TkKeySelecting(code, ok, NoUpdate)
    \/ \E update \in Updates : TkKeySelecting("s", TRUE, update)
    \/ TkKeySelecting("s", FALSE, NoUpdate)
    \/ \E code \in KeyCodes, text \in Texts :
           /\ code # "Esc" \/ text = ""
           /\ TkKeyEditing(code, text)
    \/ \E code \in KeyCodes, ok \in BOOLEAN :
           /\ ok \/ code = "p"
           /\ TkKeyPaused(code, ok)

SpecTimekeeper == InitTimekeeper /\ [][NextTimekeeper]_vars

\* C40: the state becomes Paused only by a double tap with pause = true in
\* Selecting or Editing, or by key 'p' in Selecting once pause() succeeded;
\* Paused is left for another state only to Selecting, by a double tap with
\* pause = false, a facet event, or key 'p' once unpause() succeeded (run
\* itself ends when unpause() or the background task fails); each of these
\* events has that effect; and a key handled while Paused changes neither the
\* entry list nor the selection nor an entry's description or visibility.
C40_Paused ==
    [][/\ (tk_state # "Paused" /\ tk_state' = "Paused") =>
              \/ /\ tk_state \in { "Selecting", "Editing" }
                 /\ tk_last' = DeviceEvent("DoubleTap(pause)")
              \/ /\ tk_state = "Selecting"
                 /\ tk_last' = KeyEvent("p", TRUE)
       /\ (tk_state = "Paused" /\ tk_state' \in { "Selecting", "Editing" }) =>
              /\ tk_state' = "Selecting"
              /\ tk_last' \in { DeviceEvent("DoubleTap(unpause)"), DeviceEvent("Facet"),
                                KeyEvent("p", TRUE) }
       /\ (tk_state = "Paused" /\ tk_state' \notin { "Paused", "Selecting" }) =>
              /\ tk_state' = "exited"
              /\ tk_last' \in { KeyEvent("p", FALSE), [src |-> "task"] }
       /\ (tk_state \in { "Selecting", "Editing" }
              /\ tk_last' = DeviceEvent("DoubleTap(pause)")) => tk_state' = "Paused"
       /\ (tk_state = "Selecting" /\ tk_last' = KeyEvent("p", TRUE)) => tk_state' = "Paused"
       /\ (tk_state = "Paused"
              /\ tk_last' \in { DeviceEvent("DoubleTap(unpause)"), DeviceEvent("Facet"),
                                KeyEvent("p", TRUE) }) => tk_state' = "Selecting"
       /\ (tk_state = "Paused" /\ tk_last'.src = "key") =>
              UNCHANGED << tk_items, tk_selected, tk_entries, tk_show_invisible >>]_vars

\* editing an entry was interrupted by a double tap that paused, and the
\* pause was ended by key 'p': the entries and the selection are as they were
C40_Witness ==
    /\ tk_state = "Selecting"
    /\ tk_last = KeyEvent("p", TRUE)
    /\ tk_textarea = "a"
    /\ List_selected(AppList).tag = "Some"
    /\ tk_entries[List_selected(AppList).val].description = ""

====
